---- MODULE Spec2Model ----
(***************************************************************************)
(* Retrieval-augmented answer pipeline of the ulearn repository.           *)
(*                                                                         *)
(* Three request handlers are modelled, each as a sequence of steps with   *)
(* one step per awaited call:                                              *)
(*   "search"  - src/app/api/search/route.ts         POST                  *)
(*   "mcq"     - src/app/page.tsx (lines 272-416)    POST                  *)
(*   "medical" - src/unnamed/part_004 (= part_005)   POST                  *)
(* and one direct call of generateEmbedding(text, maxRetries), "embedCall",*)
(* which exercises the retry loop with a maxRetries other than the default.*)
(*                                                                         *)
(* Texts are sequences of one-character strings.  Scores are similarity    *)
(* scores in hundredths (0.5 is 50, 0.81 is 81).                           *)
(***************************************************************************)
EXTENDS Integers, Sequences, FiniteSets, TLC

VARIABLES
    route,          \* which handler serves the current request
    pc,             \* position of the handler
    req,            \* the parsed request body
    maxRetries,     \* generateEmbedding's maxRetries parameter
    failN,          \* the provider fails its first failN calls, then succeeds
    attempt,        \* generateEmbedding's loop variable
    providerCalls,  \* embedContent calls made so far
    waits,          \* the backoff waits taken, in milliseconds
    embedding,      \* what generateEmbedding returned
    minScore,       \* semanticSearch's minScore parameter
    modelReply,     \* the model's reply to the yes/no (or relevance) question
    isRelevant,     \* result of the in-domain / context-relevance check
    allNamespaces,  \* Object.keys(stats.namespaces || {})
    nsQueue,        \* chapter namespaces still to query (for ... of loop)
    fetched,        \* every match the index returned for this request, in order
    allMatches,     \* matches retrieved (allMatches / queryResponse.matches)
    results,        \* semanticSearch's filtered results
    hasContext,     \* medical route: combinedContext is defined
    prompt,         \* the prompt template built
    genOutcome,     \* what the answer-generation call did
    failedAt,       \* the call whose error left its try block ("none" if none)
    swallowed,      \* the calls whose error was caught and turned into a default
    log,            \* every external call made for this request, in order
    response        \* the HTTP response (or the direct call's result)

routeVars == << route, pc, req, maxRetries, failN, attempt, providerCalls, waits,
                embedding, minScore, modelReply, isRelevant, allNamespaces, nsQueue,
                fetched, allMatches, results, hasContext, prompt, genOutcome, failedAt, swallowed, log, response >>

\* the pages that render an answer
VARIABLES
    page,           \* the page rendering an answer ("none" before)
    content,        \* the answer text handed to MedicalResponse
    parsed          \* what parseResponse made of it

pageVars == << page, content, parsed >>

\* the upload route and the ingestion process it spawns
VARIABLES
    upc,            \* where the upload request is
    form,           \* the form data of the upload request
    disk,           \* the files written to the uploads directory, in order
    spawned,        \* how many ingestion processes were spawned
    proc,           \* the ingestion process
    delivered,      \* how many of its progress lines reached stdout.on('data')
    frag,           \* the rest of a line cut by the last data chunk is due
    error,          \* how many stderr chunks were appended to error
    chunksProcessed,
    totalChunks,
    stream,         \* the events written to the progress stream, in order
    writerClosed,   \* how often writer.close() was called
    uresponse,      \* the HTTP response of the upload request
    hpc,            \* where the 'error' and the 'close' callback are
    lateWrites      \* how often sendProgress was called after writer.close()

uploadVars == << upc, form, disk, spawned, proc, delivered, frag, error,
                 chunksProcessed, totalChunks, stream, writerClosed, uresponse,
                 hpc, lateWrites >>

VARIABLES
    written,        \* the events the upload route wrote to the progress stream
    body,           \* the bytes of the response body the page has not read yet
    bodyClosed,     \* whether the route closed the progress stream
    reader,         \* where the page's read loop is
    handled         \* the events the page's switch has dealt with, in order

readerVars == << written, body, bodyClosed, reader, handled >>

VARIABLES
    uploads,        \* the uploads directory: the bytes stored under each file name
    requests        \* the upload requests running at the same time

dirVars == << uploads, requests >>

VARIABLES
    quizState,      \* mcqs, currentQuestion, selectedAnswers, showResults, score
    loading,        \* a quiz is being generated
    did             \* the handler of the quiz page that ran last

quizVars == << quizState, loading, did >>

VARIABLES
    messages,       \* the message list of the chat page
    isLoading,      \* a request of the chat page is in flight
    closure,        \* messages.length as the running handleSubmit sees it
    chatDid,        \* what the last submission of the chat page came to
    before          \* the message list before the last submission

chatVars == << messages, isLoading, closure, chatDid, before >>

\* the variables the route handlers of search, MCQ and chat do not touch
otherVars == << pageVars, uploadVars, readerVars, dirVars, quizVars, chatVars >>

\* the variables the answer parser does not touch
notPage == << routeVars, uploadVars, readerVars, dirVars, quizVars, chatVars >>

\* the variables the upload route does not touch
notUpload == << routeVars, pageVars, readerVars, dirVars, quizVars, chatVars >>

\* the variables the reader of the upload page does not touch
notReader == << routeVars, pageVars, uploadVars, dirVars, quizVars, chatVars >>

\* the variables uploads running at the same time do not touch
notDir == << routeVars, pageVars, uploadVars, readerVars, quizVars, chatVars >>

\* the variables the quiz of the upload page does not touch
notQuiz == << routeVars, pageVars, uploadVars, readerVars, dirVars, chatVars >>

\* the variables the chat page does not touch
notChat == << routeVars, pageVars, uploadVars, readerVars, dirVars, quizVars >>

vars == << routeVars, pageVars, uploadVars, readerVars, dirVars, quizVars, chatVars >>

----------------------------------------------------------------------------
(* Bounds of the model *)

\* largest number of passages stored in one namespace
MaxStored == 21
\* the provider fails its first 0..MaxFailN calls
MaxFailN == 4
\* maxRetries values 0..MaxRetriesArg are tried in the direct call
MaxRetriesArg == 4
\* numeric counts -1..MaxCount are sent to the MCQ route
MaxCount == 22
\* documents of 1..MaxChunks chunks are ingested
MaxChunks == 4
\* an ingestion process writes up to MaxWarnings warnings to its standard error
MaxWarnings == 1
\* the upload route writes up to MaxEvents events to one progress stream
MaxEvents == 2
\* MaxRequests upload requests run at the same time
MaxRequests == 2
\* the chat page holds up to MaxMessages messages
MaxMessages == 6

----------------------------------------------------------------------------
(* Program constants *)

\* generateEmbedding(text, maxRetries = 3)
DefaultMaxRetries == 3
\* the gate's threshold 0.5, in hundredths
GateThreshold == 50
\* semanticSearch(query, topK = 3, minScore = 0.5)
DefaultMinScore == 50
SemanticTopK == 3
\* search route: topK: 5
SearchTopK == 5
\* MCQ route: count = 5, clamped to 1..20, limit min(count * 2, 20)
DefaultCount == 5
MinCount == 1
MaxValidCount == 20
OverFetch == 2
MaxLimit == 20
\* Math.pow(2, attempt) * 1000
BackoffBase == 2
BackoffUnitMs == 1000

----------------------------------------------------------------------------
(* Texts *)

Min(a, b) == IF a < b THEN a ELSE b
Max(a, b) == IF a > b THEN a ELSE b

RECURSIVE Pow(_, _)
Pow(b, e) == IF e = 0 THEN 1 ELSE b * Pow(b, e - 1)

StartsWith(s, p) == Len(s) >= Len(p) /\ SubSeq(s, 1, Len(p)) = p

Includes(s, sub) ==
    \E i \in 1..(Len(s) - Len(sub) + 1) : SubSeq(s, i, i + Len(sub) - 1) = sub

IsSpace(c) == c \in {" ", "\n", "\t"}

RECURSIVE TrimStart(_)
TrimStart(s) ==
    IF s # << >> /\ IsSpace(Head(s)) THEN TrimStart(Tail(s)) ELSE s

RECURSIVE TrimEnd(_)
TrimEnd(s) ==
    IF s # << >> /\ IsSpace(s[Len(s)]) THEN TrimEnd(SubSeq(s, 1, Len(s) - 1)) ELSE s

\* String.prototype.trim
Trim(s) == TrimEnd(TrimStart(s))

UpperChar(c) ==
    CASE c = "y" -> "Y" [] c = "e" -> "E" [] c = "s" -> "S" [] c = "n" -> "N"
      [] c = "o" -> "O" [] c = "r" -> "R" [] c = "l" -> "L" [] c = "v" -> "V"
      [] c = "a" -> "A" [] c = "t" -> "T" [] c = "i" -> "I"
      [] OTHER -> c

\* String.prototype.toUpperCase
ToUpperCase(s) == [i \in 1..Len(s) |-> UpperChar(s[i])]

YES == << "Y", "E", "S" >>
RELEVANT == << "R", "E", "L", "E", "V", "A", "N", "T" >>
SourceOpen == << "[", "S", "O", "U", "R", "C", "E", ":", " " >>
SourceError == SourceOpen \o << "E", "R", "R", "O", "R", "]" >>
ChapterPrefix == << "c", "h", "a", "p", "t", "e", "r", "_" >>
DefaultNs == << "d", "e", "f", "a", "u", "l", "t" >>
\* part_004 queries 'medical_book_vectors'; part_005, otherwise the same
\* handler, queries 'default'
MedicalNs == << "m", "e", "d", "i", "c", "a", "l", "_", "b", "o", "o", "k", "_",
               "v", "e", "c", "t", "o", "r", "s" >>

----------------------------------------------------------------------------
(* Numbers as JavaScript sees them: an integer or NaN *)

NaN == [nan |-> TRUE, n |-> 0]
Num(k) == [nan |-> FALSE, n |-> k]

\* Math.max / Math.min of two values: NaN when either is NaN
MathMax(a, b) == IF a.nan \/ b.nan THEN NaN ELSE Num(Max(a.n, b.n))
MathMin(a, b) == IF a.nan \/ b.nan THEN NaN ELSE Num(Min(a.n, b.n))

DigitChars == << "0", "1", "2", "3", "4", "5", "6", "7", "8", "9" >>
IsDigit(c) == \E d \in 1..10 : DigitChars[d] = c
DigitVal(c) == (CHOOSE d \in 1..10 : DigitChars[d] = c) - 1

RECURSIVE NatToString(_)
NatToString(k) ==
    IF k < 10 THEN << DigitChars[k + 1] >>
    ELSE NatToString(k \div 10) \o << DigitChars[(k % 10) + 1] >>

\* Number.prototype.toString of an integer
NumberToString(k) == IF k < 0 THEN << "-" >> \o NatToString(-k) ELSE NatToString(k)

RECURSIVE LeadingDigits(_)
LeadingDigits(s) ==
    IF s # << >> /\ IsDigit(Head(s)) THEN << Head(s) >> \o LeadingDigits(Tail(s))
    ELSE << >>

RECURSIVE DigitsValue(_)
DigitsValue(d) ==
    IF d = << >> THEN 0
    ELSE 10 * DigitsValue(SubSeq(d, 1, Len(d) - 1)) + DigitVal(d[Len(d)])

\* parseInt(string): leading white space, an optional sign, then the longest
\* run of digits; NaN when there is no digit
ParseInt(s) ==
    LET t == TrimStart(s)
        signed == t # << >> /\ Head(t) \in {"-", "+"}
        d == LeadingDigits(IF signed THEN Tail(t) ELSE t)
    IN  IF d = << >> THEN NaN
        ELSE IF signed /\ Head(t) = "-" THEN Num(0 - DigitsValue(d))
        ELSE Num(DigitsValue(d))

----------------------------------------------------------------------------
(* The request body *)

\* the count field: absent, null, a number or a string
CountAbsent == [kind |-> "absent", n |-> 0, s |-> << >>]
CountNull == [kind |-> "null", n |-> 0, s |-> << >>]
CountNum(k) == [kind |-> "num", n |-> k, s |-> << >>]
CountStr(t) == [kind |-> "str", n |-> 0, s |-> t]

CountStrings ==
    { << "7" >>, << "a", "b", "c" >>, << "1", "2", "a" >>, << >>, << " ", "3" >> }

CountInputs ==
    {CountAbsent, CountNull} \cup {CountNum(k) : k \in (0 - 1)..MaxCount}
        \cup {CountStr(t) : t \in CountStrings}

Subjects == {"", "physics", "biology"}

NoRequest == [query |-> FALSE, subject |-> "", count |-> CountAbsent]

\* const { query, count = 5, subject } = await req.json(): the default applies
\* to an absent count only; count.toString() of null throws
CountThrows(count) == count.kind = "null"

CountToString(count) ==
    CASE count.kind = "absent" -> NumberToString(DefaultCount)
      [] count.kind = "num" -> NumberToString(count.n)
      [] OTHER -> count.s

\* Math.min(Math.max(parseInt(count.toString()), 1), 20)
ValidCount(count) ==
    MathMin(MathMax(ParseInt(CountToString(count)), Num(MinCount)), Num(MaxValidCount))

McqLimitUncapped(validCount) == validCount * OverFetch

\* topK: Math.min(validCount * 2, 20)
McqLimit(validCount) == Min(validCount * OverFetch, MaxLimit)

----------------------------------------------------------------------------
(* The vector index.  A namespace stores passages; a query returns the topK  *)
(* most similar ones, most similar first, each with its score.               *)

Shapes ==
    { [n |-> 0, hi |-> 0, step |-> 0],
      [n |-> 1, hi |-> 49, step |-> 0],
      [n |-> 1, hi |-> 50, step |-> 0],
      [n |-> 2, hi |-> 81, step |-> 40],
      [n |-> 3, hi |-> 60, step |-> 0],
      [n |-> MaxStored, hi |-> 90, step |-> 2] }

\* the passages of namespace ns, by decreasing similarity to the query
Stored(ns, shape) ==
    [i \in 1..shape.n |->
        [ns |-> ns, pos |-> i, score |-> Max(shape.hi - (i - 1) * shape.step, 0)]]

\* index.namespace(ns).query({vector, topK, includeMetadata}).matches
QueryMatches(ns, shape, topK) ==
    SubSeq(Stored(ns, shape), 1, Min(topK, shape.n))

\* Object.keys(stats.namespaces || {}): the namespaces of the index
NamespaceListings ==
    { << >>,
      << DefaultNs >>,
      << ChapterPrefix \o << "1" >>, DefaultNs, ChapterPrefix \o << "2" >> >>,
      << << "c", "h", "a", "p", "t", "e", "r" >>, ChapterPrefix \o << "2" >>,
         << "x" >> \o ChapterPrefix >> }

\* allNamespaces.filter(ns => ns.startsWith('chapter_'))
ChapterNamespaces(names) ==
    SelectSeq(names, LAMBDA ns : StartsWith(ns, ChapterPrefix))

----------------------------------------------------------------------------
(* Ranking and gating *)

\* a.score ?? 0 (every match of a query reply carries a score)
ScoreOrZero(m) == m.score

InsertByScoreUnstable(sorted, m) ==
    LET k == Cardinality({i \in 1..Len(sorted) :
                            ScoreOrZero(sorted[i]) > ScoreOrZero(m)})
    IN  SubSeq(sorted, 1, k) \o << m >> \o SubSeq(sorted, k + 1, Len(sorted))

\* Array.prototype.sort((a, b) => (b.score ?? 0) - (a.score ?? 0)): a stable
\* sort by decreasing score
InsertByScore(sorted, m) ==
    LET k == Cardinality({i \in 1..Len(sorted) :
                            ScoreOrZero(sorted[i]) >= ScoreOrZero(m)})
    IN  SubSeq(sorted, 1, k) \o << m >> \o SubSeq(sorted, k + 1, Len(sorted))

RECURSIVE SortByScoreDesc(_)
SortByScoreDesc(s) ==
    IF s = << >> THEN << >>
    ELSE InsertByScore(SortByScoreDesc(SubSeq(s, 1, Len(s) - 1)), s[Len(s)])

SliceShort(s, n) == SubSeq(s, 1, Min(n - 1, Len(s)))

\* Array.prototype.slice(0, n)
SliceTo(s, n) == SubSeq(s, 1, Min(n, Len(s)))

MergeShardsUnsorted(matches, validCount) == SliceTo(matches, McqLimit(validCount))

\* allMatches.sort(...).slice(0, Math.min(validCount * 2, 20))
MergeShards(matches, validCount) ==
    SliceTo(SortByScoreDesc(matches), McqLimit(validCount))

MatchesInsufficientLax(matches) ==
    Len(matches) = 0
        \/ \A i \in 1..Len(matches) : ScoreOrZero(matches[i]) <= GateThreshold

\* queryResponse.matches.length === 0 ||
\*   queryResponse.matches.every(match => (match.score ?? 0) < 0.5)
MatchesInsufficient(matches) ==
    Len(matches) = 0
        \/ \A i \in 1..Len(matches) : ScoreOrZero(matches[i]) < GateThreshold

ShouldUseFallbackAnyDomain(relevant, matches) == MatchesInsufficient(matches)

\* const shouldUseFallback = isRelevant && (...)
ShouldUseFallback(relevant, matches) == relevant /\ MatchesInsufficient(matches)

SearchPromptThreeWay(relevant, matches) ==
    IF ShouldUseFallback(relevant, matches) THEN "fallback"
    ELSE IF MatchesInsufficient(matches) THEN "noInfo"
    ELSE "grounded"

\* const prompt = shouldUseFallback ? `...Knowledge]` : `...Textbook]`
SearchPrompt(relevant, matches) ==
    IF ShouldUseFallback(relevant, matches) THEN "fallback" ELSE "grounded"

\* .filter(match => typeof match.score === 'number' && match.score >= minScore)
FilterByScore(matches, threshold) ==
    SelectSeq(matches, LAMBDA m : m.score >= threshold)

\* context && isRelevant ? `...[SOURCE: Medical Text Reference]...`
\*                       : `...[SOURCE: GENERATED - NO RELEVANT TEXT]...`
MedicalPrompt(context, relevant) ==
    IF context /\ relevant THEN "reference" ELSE "general"

----------------------------------------------------------------------------
(* The language model's replies *)

\* replies to the yes/no in-domain question
DomainReplies ==
    { YES, << "y", "e", "s" >>, << " ", "Y", "e", "s", "\n" >>,
      << "N", "O" >>, << "Y", "E", "S", "." >>, << >> }

\* result.response.text().trim().toUpperCase() === "YES"
IsYes(text) == ToUpperCase(Trim(text)) = YES

\* replies to the RELEVANT / IRRELEVANT question
AssessReplies ==
    { RELEVANT, << "I", "R" >> \o RELEVANT, << "r", "e", "l", "e", "v", "a", "n", "t" >>,
      << "N", "O" >> }

\* text.toUpperCase().includes('RELEVANT')
SaysRelevant(text) == Includes(ToUpperCase(text), RELEVANT)

\* generated answers: tagged, untagged, empty, blank
Body == << "o", "k" >>
GeneratedTexts ==
    { SourceOpen \o << "T", "]", "\n" >> \o Body, Body, << >>, << " ", "\n" >> }

\* the degraded answer of getGeminiResponse
ErrorAnswer == SourceError \o << " ", "\n" >> \o Body

\* the degraded answer of getGeminiResponse's catch, with the error's details
TechnicalErrorAnswer == ErrorAnswer \o << ":", " ", "e", "r", "r" >>

\* !response || response.trim() === ''
IsBlank(text) == text = << >> \/ Trim(text) = << >>

----------------------------------------------------------------------------
(* Embeddings *)

NumVal(k) == [isArr |-> FALSE, num |-> k, arr |-> << >>]
ArrVal(a) == [isArr |-> TRUE, num |-> 0, arr |-> a]

Vector == << 7, 3 >>

\* a property of an object: an array-index key ("0", "1", ...) or a named key
IndexProp(k, v) == [index |-> k, name |-> "", val |-> v]
NamedProp(n, v) == [index |-> 0 - 1, name |-> n, val |-> v]

\* result.embedding as the provider hands it over: a plain array; an object
\* with one property per dimension, created in dimension order or in reverse;
\* or the object { values: [...] } that wraps the array
ProviderEmbeddings ==
    { [kind |-> "array",
       props |-> [i \in 1..Len(Vector) |-> IndexProp(i - 1, NumVal(Vector[i]))]],
      [kind |-> "object",
       props |-> [i \in 1..Len(Vector) |-> IndexProp(i - 1, NumVal(Vector[i]))]],
      [kind |-> "object",
       props |-> [i \in 1..Len(Vector) |->
                    IndexProp(Len(Vector) - i, NumVal(Vector[Len(Vector) - i + 1]))]],
      [kind |-> "object",
       props |-> << NamedProp("values", ArrVal(Vector)) >>] }

\* Object.values(o): the values of the index keys in ascending order, then
\* those of the named keys in creation order
ObjectValues(props) ==
    LET indexed == SelectSeq(props, LAMBDA q : q.index >= 0)
        named == SelectSeq(props, LAMBDA q : q.index < 0)
        rank(q) == Cardinality({i \in 1..Len(indexed) : indexed[i].index < q.index})
        byIndex == [r \in 1..Len(indexed) |->
                      (CHOOSE i \in 1..Len(indexed) : rank(indexed[i]) = r - 1)]
    IN  [r \in 1..Len(indexed) |-> indexed[byIndex[r]].val]
            \o [i \in 1..Len(named) |-> named[i].val]

\* Array.isArray(embedding) ? embedding : Object.values(embedding)
NormalizeEmbedding(e) ==
    IF e.kind = "array"
    THEN [i \in 1..Len(e.props) |-> e.props[i].val]
    ELSE ObjectValues(e.props)

WaitTimeLinear(k) == (k + 1) * BackoffUnitMs

\* waitTime = Math.pow(2, attempt) * 1000
WaitTime(k) == Pow(BackoffBase, k) * BackoffUnitMs

----------------------------------------------------------------------------
(* State *)

Routes == {"search", "mcq", "medical", "embedCall", "semanticCall"}

\* semanticSearch's minScore values tried in the direct call
MinScores == {0, DefaultMinScore, 91}

NoReply == [asked |-> FALSE, threw |-> FALSE, text |-> << >>]
NoOutcome == [called |-> FALSE, threw |-> FALSE, text |-> << >>]
NoResponse ==
    [outcome |-> "none", status |-> 0, error |-> "", aiResponse |-> << >>,
     results |-> << >>, usedFallback |-> FALSE, hasContext |-> FALSE]

Call(op) == [op |-> op, ns |-> << >>, topK |-> 0]
QueryCall(ns, topK) == [op |-> "query", ns |-> ns, topK |-> topK]

\* NextResponse.json({ error }, { status })
ErrorResponse(status, message) ==
    [NoResponse EXCEPT !.outcome = "json", !.status = status, !.error = message]

\* the message of each handler's outermost catch
CatchMessage(r) ==
    CASE r = "search" -> "Failed to search"
      [] r = "mcq" -> "Failed to generate MCQs"
      [] OTHER -> "An unexpected error occurred"

\* no upload request yet
NoForm == [hasFile |-> FALSE, fileName |-> "", hasIndexName |-> FALSE, indexName |-> << >>]

\* the exit code 'close' carries for a process that did not start (the errno
\* of the failed spawn, ENOENT)
SpawnErrno == -2

\* the names and the contents of the files that are uploaded
FileNames == { "book.pdf", "notes.pdf" }
Contents == { "bytes-1", "bytes-2" }
NoBytes == "none"

\* the upload requests that run at the same time
Requests == 1..MaxRequests
NoUpload == [at |-> "idle", fileName |-> "", bytes |-> NoBytes, read |-> NoBytes]

\* useState<QuizState>({...}) of the quiz page, and what handleRestart sets;
\* currentQuestion counts from 0 as in the page
NoQuiz ==
    [mcqs |-> << >>, currentQuestion |-> 0, selectedAnswers |-> << >>,
     showResults |-> FALSE, score |-> 0]

\* neither the 'error' nor the 'close' callback has run
NoCallbacks == [error |-> "idle", close |-> "idle"]

\* no ingestion process yet
NoProcess == [state |-> "none", total |-> 0, reported |-> 0, code |-> 0, stderr |-> 0]

\* nothing parsed yet
NoParse == [source |-> << >>, textbook |-> << >>, aiGenerated |-> << >>]

Init ==
    /\ route = "none"
    /\ pc = "idle"
    /\ req = NoRequest
    /\ maxRetries = DefaultMaxRetries
    /\ failN = 0
    /\ attempt = 0
    /\ providerCalls = 0
    /\ waits = << >>
    /\ embedding = << >>
    /\ minScore = DefaultMinScore
    /\ modelReply = NoReply
    /\ isRelevant = FALSE
    /\ allNamespaces = << >>
    /\ nsQueue = << >>
    /\ fetched = << >>
    /\ allMatches = << >>
    /\ results = << >>
    /\ hasContext = FALSE
    /\ prompt = "none"
    /\ genOutcome = NoOutcome
    /\ failedAt = "none"
    /\ swallowed = {}
    /\ log = << >>
    /\ response = NoResponse
    /\ page = "none"
    /\ content = << >>
    /\ parsed = NoParse
    /\ upc = "idle"
    /\ form = NoForm
    /\ disk = << >>
    /\ spawned = 0
    /\ proc = NoProcess
    /\ delivered = 0
    /\ frag = FALSE
    /\ error = 0
    /\ chunksProcessed = 0
    /\ totalChunks = 0
    /\ stream = << >>
    /\ writerClosed = 0
    /\ uresponse = NoResponse
    /\ hpc = NoCallbacks
    /\ lateWrites = 0
    /\ written = << >>
    /\ body = << >>
    /\ bodyClosed = FALSE
    /\ reader = "reading"
    /\ handled = << >>
    /\ uploads = [name \in FileNames |-> NoBytes]
    /\ requests = [r \in Requests |-> NoUpload]
    /\ quizState = NoQuiz
    /\ loading = FALSE
    /\ did = "none"
    /\ messages = << >>
    /\ isLoading = FALSE
    /\ closure = 0
    /\ chatDid = "none"
    /\ before = << >>

\* a request starts from the handler's initial locals; the handlers keep no
\* state from one request to the next, so one request per behaviour is modelled
Fresh ==
    /\ attempt' = 0
    /\ providerCalls' = 0
    /\ waits' = << >>
    /\ embedding' = << >>
    /\ modelReply' = NoReply
    /\ isRelevant' = FALSE
    /\ allNamespaces' = << >>
    /\ nsQueue' = << >>
    /\ fetched' = << >>
    /\ allMatches' = << >>
    /\ results' = << >>
    /\ hasContext' = FALSE
    /\ prompt' = "none"
    /\ genOutcome' = NoOutcome
    /\ failedAt' = "none"
    /\ swallowed' = {}
    /\ log' = << >>
    /\ response' = NoResponse

ThrowAnswered(site) ==
    /\ failedAt' = site
    /\ response' = [NoResponse EXCEPT !.outcome = "json", !.status = 200]
    /\ pc' = "done"

\* the error leaves the handler's try block: its catch answers 500
Throw(site) ==
    /\ failedAt' = site
    /\ response' = ErrorResponse(500, CatchMessage(route))
    /\ pc' = "done"

----------------------------------------------------------------------------
(* Request arrival *)

\* POST of the search route: const { query, subject } = await req.json()
ReceiveSearch ==
    /\ pc = "idle"
    /\ \E q \in BOOLEAN, s \in Subjects, f \in 0..MaxFailN :
        /\ req' = [query |-> q, subject |-> s, count |-> CountAbsent]
        /\ failN' = f
    /\ route' = "search"
    /\ pc' = "validate"
    /\ maxRetries' = DefaultMaxRetries
    /\ minScore' = DefaultMinScore
    /\ Fresh
    /\ UNCHANGED otherVars

\* POST of the MCQ route: const { query, count = 5, subject } = await req.json()
ReceiveMcq ==
    /\ pc = "idle"
    /\ \E q \in BOOLEAN, s \in Subjects, c \in CountInputs, f \in 0..MaxFailN :
        /\ req' = [query |-> q, subject |-> s, count |-> c]
        /\ failN' = f
    /\ route' = "mcq"
    /\ pc' = "validate"
    /\ maxRetries' = DefaultMaxRetries
    /\ minScore' = DefaultMinScore
    /\ Fresh
    /\ UNCHANGED otherVars

\* POST of the medical route: const { query } = await req.json()
ReceiveMedical ==
    /\ pc = "idle"
    /\ \E q \in BOOLEAN, f \in 0..MaxFailN :
        /\ req' = [query |-> q, subject |-> "", count |-> CountAbsent]
        /\ failN' = f
    /\ route' = "medical"
    /\ pc' = "validate"
    /\ maxRetries' = DefaultMaxRetries
    /\ minScore' = DefaultMinScore
    /\ Fresh
    /\ UNCHANGED otherVars

\* generateEmbedding(text, maxRetries) called on its own
CallGenerateEmbedding ==
    /\ pc = "idle"
    /\ \E m \in 0..MaxRetriesArg, f \in 0..MaxFailN :
        /\ maxRetries' = m
        /\ failN' = f
    /\ req' = [NoRequest EXCEPT !.query = TRUE]
    /\ route' = "embedCall"
    /\ pc' = "embed"
    /\ minScore' = DefaultMinScore
    /\ Fresh
    /\ UNCHANGED otherVars

\* semanticSearch(query, topK, minScore) called on its own
CallSemanticSearch ==
    /\ pc = "idle"
    /\ \E ms \in MinScores, f \in 0..MaxFailN :
        /\ minScore' = ms
        /\ failN' = f
    /\ req' = [NoRequest EXCEPT !.query = TRUE]
    /\ route' = "semanticCall"
    /\ pc' = "embed"
    /\ maxRetries' = DefaultMaxRetries
    /\ Fresh
    /\ UNCHANGED otherVars

----------------------------------------------------------------------------
(* Validation *)

\* !query: the query is missing or empty
QueryMissing(r) == ~r.query

SubjectOptional(r) == FALSE

\* !subject: the subject is missing or empty
SubjectMissing(r) == r.subject = ""

\* if (!query) ... 400; if (!subject) ... 400
SearchValidate ==
    /\ route = "search" /\ pc = "validate"
    /\ IF QueryMissing(req)
       THEN response' = ErrorResponse(400, "Query is required") /\ pc' = "done"
       ELSE IF SubjectMissing(req)
       THEN response' = ErrorResponse(400, "Subject is required") /\ pc' = "done"
       ELSE response' = response /\ pc' = "classify"
    /\ UNCHANGED << route, allNamespaces, req, maxRetries, failN, attempt, providerCalls, waits,
                    embedding, minScore, modelReply, isRelevant, nsQueue,
                    fetched, allMatches, results, hasContext, prompt, genOutcome,
                    failedAt, swallowed, log >>
    /\ UNCHANGED otherVars

\* if (!query) ... 400; if (!subject) ... 400; validCount; if (isNaN) ... 400
McqValidate ==
    /\ route = "mcq" /\ pc = "validate"
    /\ IF QueryMissing(req)
       THEN /\ response' = ErrorResponse(400, "Query is required")
            /\ pc' = "done" /\ failedAt' = failedAt
       ELSE IF SubjectMissing(req)
       THEN /\ response' = ErrorResponse(400, "Subject is required")
            /\ pc' = "done" /\ failedAt' = failedAt
       ELSE IF CountThrows(req.count)
       THEN Throw("validate")
       ELSE IF ValidCount(req.count).nan
       THEN /\ response' = ErrorResponse(400, "Invalid MCQ count")
            /\ pc' = "done" /\ failedAt' = failedAt
       ELSE response' = response /\ pc' = "embed" /\ failedAt' = failedAt
    /\ UNCHANGED << route, allNamespaces, req, maxRetries, failN, attempt, providerCalls, waits,
                    embedding, minScore, modelReply, isRelevant, nsQueue,
                    fetched, allMatches, results, hasContext, prompt, genOutcome,
                    swallowed, log >>
    /\ UNCHANGED otherVars

\* if (!query) ... 400
MedicalValidate ==
    /\ route = "medical" /\ pc = "validate"
    /\ IF QueryMissing(req)
       THEN response' = ErrorResponse(400, "Query is required") /\ pc' = "done"
       ELSE response' = response /\ pc' = "embed"
    /\ UNCHANGED << route, allNamespaces, req, maxRetries, failN, attempt, providerCalls, waits,
                    embedding, minScore, modelReply, isRelevant, nsQueue,
                    fetched, allMatches, results, hasContext, prompt, genOutcome,
                    failedAt, swallowed, log >>
    /\ UNCHANGED otherVars

----------------------------------------------------------------------------
(* In-domain check of the search route *)

InDomainOnError(reply) == IF reply.threw THEN TRUE ELSE IsYes(reply.text)

\* isQueryRelevantToSubject: one model call; its error is caught and is false
InDomain(reply) == IF reply.threw THEN FALSE ELSE IsYes(reply.text)

Classify ==
    /\ route = "search" /\ pc = "classify"
    /\ \E reply \in {[asked |-> TRUE, threw |-> FALSE, text |-> t] : t \in DomainReplies}
                      \cup {[asked |-> TRUE, threw |-> TRUE, text |-> << >>]} :
        /\ modelReply' = reply
        /\ isRelevant' = InDomain(reply)
        /\ swallowed' = IF reply.threw THEN swallowed \cup {"classify"} ELSE swallowed
    /\ log' = Append(log, Call("classify"))
    /\ pc' = "embed"
    /\ UNCHANGED << route, allNamespaces, req, maxRetries, failN, attempt, providerCalls, waits,
                    embedding, minScore, nsQueue, fetched, allMatches, results,
                    hasContext, prompt, genOutcome, failedAt, response >>
    /\ UNCHANGED otherVars

----------------------------------------------------------------------------
(* What follows semanticSearch and what follows an error *)

\* semanticSearch returned rs: the medical route builds combinedContext and
\* enters getGeminiResponse, which assesses the context only when there is one
SemanticReturn(rs) ==
    /\ results' = rs
    /\ IF route = "semanticCall"
       THEN /\ response' = [NoResponse EXCEPT !.outcome = "returned", !.results = rs]
            /\ pc' = "done"
            /\ UNCHANGED << hasContext, prompt >>
       ELSE /\ hasContext' = (Len(rs) > 0)
            /\ response' = response
            /\ IF Len(rs) > 0
               THEN pc' = "assess" /\ prompt' = prompt
               ELSE pc' = "generate" /\ prompt' = MedicalPrompt(FALSE, FALSE)

\* an error thrown by generateEmbedding, connectToPinecone or a query:
\* semanticSearch catches it and returns []; the search and MCQ routes let it
\* reach the handler's catch; the direct call of generateEmbedding rejects
Raise(site) ==
    IF route \in {"medical", "semanticCall"}
    THEN /\ swallowed' = swallowed \cup {site}
         /\ failedAt' = failedAt
         /\ SemanticReturn(<< >>)
    ELSE IF route = "embedCall"
    THEN /\ failedAt' = site
         /\ response' = [NoResponse EXCEPT !.outcome = "threw"]
         /\ pc' = "done"
         /\ UNCHANGED << swallowed, results, hasContext, prompt >>
    ELSE /\ Throw(site)
         /\ UNCHANGED << swallowed, results, hasContext, prompt >>

----------------------------------------------------------------------------
(* generateEmbedding *)

\* for (...; attempt < maxRetries; ...)
LoopRuns(k, m) == k < m

\* the provider fails its first n calls
ProviderFails(calls, n) == calls < n

MayRetryEarly(k, m) == k < m - 2

\* if (attempt < maxRetries - 1)
MayRetry(k, m) == k < m - 1

\* the loop ends without an attempt left: throw new Error('Failed to generate embedding')
EmbedExhausted ==
    /\ pc = "embed"
    /\ ~LoopRuns(attempt, maxRetries)
    /\ Raise("embed")
    /\ UNCHANGED << route, allNamespaces, req, maxRetries, failN, attempt, providerCalls, waits,
                    embedding, minScore, modelReply, isRelevant, nsQueue, fetched,
                    allMatches, genOutcome, log >>
    /\ UNCHANGED otherVars

\* a failed attempt that is not the last: wait 2^attempt seconds, try again
EmbedFailRetry ==
    /\ pc = "embed"
    /\ LoopRuns(attempt, maxRetries)
    /\ ProviderFails(providerCalls, failN)
    /\ MayRetry(attempt, maxRetries)
    /\ providerCalls' = providerCalls + 1
    /\ log' = Append(log, Call("embed"))
    /\ waits' = Append(waits, WaitTime(attempt))
    /\ attempt' = attempt + 1
    /\ UNCHANGED << route, allNamespaces, pc, req, maxRetries, failN, embedding, minScore,
                    modelReply, isRelevant, nsQueue, fetched, allMatches, results,
                    hasContext, prompt, genOutcome, failedAt, swallowed, response >>
    /\ UNCHANGED otherVars

\* the last attempt fails: throw new Error('... after all retries')
EmbedFailThrow ==
    /\ pc = "embed"
    /\ LoopRuns(attempt, maxRetries)
    /\ ProviderFails(providerCalls, failN)
    /\ ~MayRetry(attempt, maxRetries)
    /\ providerCalls' = providerCalls + 1
    /\ log' = Append(log, Call("embed"))
    /\ Raise("embed")
    /\ UNCHANGED << route, allNamespaces, req, maxRetries, failN, attempt, waits, embedding,
                    minScore, modelReply, isRelevant, nsQueue, fetched, allMatches,
                    genOutcome >>
    /\ UNCHANGED otherVars

\* an attempt succeeds: return the normalised embedding
EmbedSuccess ==
    /\ pc = "embed"
    /\ LoopRuns(attempt, maxRetries)
    /\ ~ProviderFails(providerCalls, failN)
    /\ providerCalls' = providerCalls + 1
    /\ log' = Append(log, Call("embed"))
    /\ \E e \in ProviderEmbeddings : embedding' = NormalizeEmbedding(e)
    /\ IF route = "embedCall"
       THEN /\ response' = [NoResponse EXCEPT !.outcome = "returned"]
            /\ pc' = "done"
       ELSE /\ response' = response
            /\ pc' = "connect"
    /\ UNCHANGED << route, allNamespaces, req, maxRetries, failN, attempt, waits, minScore,
                    modelReply, isRelevant, nsQueue, fetched, allMatches, results,
                    hasContext, prompt, genOutcome, failedAt, swallowed >>
    /\ UNCHANGED otherVars

----------------------------------------------------------------------------
(* Retrieval *)

\* validCount of the request being served
Count == ValidCount(req.count).n

\* if (subject === 'physics')
IsSharded(subject) == subject = "physics"

\* connectToPinecone(indexName): pc.index(...), rethrown on failure
Connect ==
    /\ pc = "connect"
    /\ log' = Append(log, Call("connect"))
    /\ \E ok \in BOOLEAN :
        IF ok
        THEN /\ pc' = IF route = "mcq" /\ IsSharded(req.subject) THEN "stats" ELSE "query"
             /\ UNCHANGED << failedAt, swallowed, response, results, hasContext, prompt >>
        ELSE Raise("connect")
    /\ UNCHANGED << route, allNamespaces, req, maxRetries, failN, attempt, providerCalls, waits,
                    embedding, minScore, modelReply, isRelevant, nsQueue, fetched,
                    allMatches, genOutcome >>
    /\ UNCHANGED otherVars

\* the loop over the chapter namespaces is over: sort, slice, build the prompt
ShardsDone(got) ==
    /\ allMatches' = MergeShards(got, Count)
    /\ nsQueue' = << >>
    /\ prompt' = "mcq"
    /\ pc' = "generate"

\* const stats = await index.describeIndexStats(); ... filter(startsWith)
Stats ==
    /\ route = "mcq" /\ pc = "stats"
    /\ log' = Append(log, Call("stats"))
    /\ \/ \E listing \in NamespaceListings :
            /\ allNamespaces' = listing
            /\ IF ChapterNamespaces(listing) = << >>
               THEN ShardsDone(allMatches)
               ELSE /\ nsQueue' = ChapterNamespaces(listing)
                    /\ pc' = "shards"
                    /\ UNCHANGED << allMatches, prompt >>
            /\ UNCHANGED << failedAt, response >>
       \/ /\ Throw("stats")
          /\ UNCHANGED << allNamespaces, nsQueue, allMatches, prompt >>
    /\ UNCHANGED << route, req, maxRetries, failN, attempt, providerCalls, waits,
                    embedding, minScore, modelReply, isRelevant, fetched, results,
                    hasContext, genOutcome, swallowed >>
    /\ UNCHANGED otherVars

\* one iteration of for (const ns of chapterNamespaces): query, push
ShardQuery ==
    /\ route = "mcq" /\ pc = "shards" /\ nsQueue # << >>
    /\ log' = Append(log, QueryCall(Head(nsQueue), McqLimit(Count)))
    /\ \/ \E shape \in Shapes :
            LET reply == QueryMatches(Head(nsQueue), shape, McqLimit(Count))
            IN  /\ fetched' = fetched \o reply
                /\ IF Tail(nsQueue) = << >>
                   THEN ShardsDone(allMatches \o reply)
                   ELSE /\ allMatches' = allMatches \o reply
                        /\ nsQueue' = Tail(nsQueue)
                        /\ UNCHANGED << pc, prompt >>
                /\ UNCHANGED << failedAt, response >>
       \/ /\ Throw("query")
          /\ UNCHANGED << nsQueue, fetched, allMatches, prompt >>
    /\ UNCHANGED << route, allNamespaces, req, maxRetries, failN, attempt, providerCalls, waits,
                    embedding, minScore, modelReply, isRelevant, results,
                    hasContext, genOutcome, swallowed >>
    /\ UNCHANGED otherVars

\* the namespace and the limit of the single query of a route
QueryNamespace(r) == IF r \in {"medical", "semanticCall"} THEN MedicalNs ELSE DefaultNs

QueryTopK(r) ==
    CASE r = "search" -> SearchTopK
      [] r = "mcq" -> McqLimit(Count)
      [] OTHER -> SemanticTopK

\* await index.namespace(...).query({ vector, topK, includeMetadata: true })
Query ==
    /\ pc = "query"
    /\ log' = Append(log, QueryCall(QueryNamespace(route), QueryTopK(route)))
    /\ \/ \E shape \in Shapes :
            LET reply == QueryMatches(QueryNamespace(route), shape, QueryTopK(route))
            IN  /\ fetched' = reply
                /\ allMatches' = reply
                /\ IF route \in {"medical", "semanticCall"}
                   THEN SemanticReturn(FilterByScore(reply, minScore))
                   ELSE /\ prompt' = IF route = "search"
                                     THEN SearchPrompt(isRelevant, reply)
                                     ELSE "mcq"
                        /\ pc' = "generate"
                        /\ UNCHANGED << results, hasContext, response >>
                /\ UNCHANGED << failedAt, swallowed >>
       \/ /\ Raise("query")
          /\ UNCHANGED << fetched, allMatches >>
    /\ UNCHANGED << route, allNamespaces, req, maxRetries, failN, attempt, providerCalls, waits,
                    embedding, minScore, modelReply, isRelevant, nsQueue, genOutcome >>
    /\ UNCHANGED otherVars

----------------------------------------------------------------------------
(* Generation *)

\* assessContextRelevance: one model call; its error is caught and is false
ContextRelevant(reply) == IF reply.threw THEN FALSE ELSE SaysRelevant(reply.text)

Assess ==
    /\ route = "medical" /\ pc = "assess"
    /\ log' = Append(log, Call("assess"))
    /\ \E reply \in {[asked |-> TRUE, threw |-> FALSE, text |-> t] : t \in AssessReplies}
                      \cup {[asked |-> TRUE, threw |-> TRUE, text |-> << >>]} :
        /\ modelReply' = reply
        /\ isRelevant' = ContextRelevant(reply)
        /\ swallowed' = IF reply.threw THEN swallowed \cup {"assess"} ELSE swallowed
        /\ prompt' = MedicalPrompt(hasContext, ContextRelevant(reply))
    /\ pc' = "generate"
    /\ UNCHANGED << route, allNamespaces, req, maxRetries, failN, attempt, providerCalls, waits,
                    embedding, minScore, nsQueue, fetched, allMatches, results,
                    hasContext, genOutcome, failedAt, response >>
    /\ UNCHANGED otherVars

GenerationOutcomes ==
    {[called |-> TRUE, threw |-> FALSE, text |-> t] : t \in GeneratedTexts}
        \cup {[called |-> TRUE, threw |-> TRUE, text |-> << >>]}

\* the tail of getGeminiResponse: an empty or blank text and a thrown error both
\* become an answer tagged [SOURCE: ERROR]
GeminiAnswer(out) ==
    IF out.threw THEN TechnicalErrorAnswer
    ELSE IF IsBlank(out.text) THEN ErrorAnswer
    ELSE out.text

SearchResponseNoAnswer(text, matches, relevant) ==
    [NoResponse EXCEPT !.outcome = "json", !.status = 200,
                       !.results = matches,
                       !.usedFallback = ShouldUseFallback(relevant, matches)]

\* return NextResponse.json({ results, aiResponse, usedFallback })
SearchResponse(text, matches, relevant) ==
    [NoResponse EXCEPT !.outcome = "json", !.status = 200,
                       !.aiResponse = text,
                       !.results = matches,
                       !.usedFallback = ShouldUseFallback(relevant, matches)]

\* search route: const result = await model.generateContent(prompt); return json
SearchGenerate ==
    /\ route = "search" /\ pc = "generate"
    /\ log' = Append(log, Call("generate"))
    /\ \E out \in GenerationOutcomes :
        /\ genOutcome' = out
        /\ IF out.threw
           THEN Throw("generate")
           ELSE /\ response' = SearchResponse(out.text, allMatches, isRelevant)
                /\ pc' = "done"
                /\ failedAt' = failedAt
    /\ UNCHANGED << route, allNamespaces, req, maxRetries, failN, attempt, providerCalls, waits,
                    embedding, minScore, modelReply, isRelevant, nsQueue, fetched,
                    allMatches, results, hasContext, prompt, swallowed >>
    /\ UNCHANGED otherVars

\* MCQ route: return NextResponse.json({ response })
McqGenerate ==
    /\ route = "mcq" /\ pc = "generate"
    /\ log' = Append(log, Call("generate"))
    /\ \E out \in GenerationOutcomes :
        /\ genOutcome' = out
        /\ IF out.threw
           THEN Throw("generate")
           ELSE /\ response' = [NoResponse EXCEPT
                                  !.outcome = "json", !.status = 200,
                                  !.aiResponse = out.text]
                /\ pc' = "done"
                /\ failedAt' = failedAt
    /\ UNCHANGED << route, allNamespaces, req, maxRetries, failN, attempt, providerCalls, waits,
                    embedding, minScore, modelReply, isRelevant, nsQueue, fetched,
                    allMatches, results, hasContext, prompt, swallowed >>
    /\ UNCHANGED otherVars

\* medical route: getGeminiResponse never throws; the handler answers 200
MedicalGenerate ==
    /\ route = "medical" /\ pc = "generate"
    /\ log' = Append(log, Call("generate"))
    /\ \E out \in GenerationOutcomes :
        /\ genOutcome' = out
        /\ swallowed' = IF out.threw THEN swallowed \cup {"generate"} ELSE swallowed
        /\ response' = [NoResponse EXCEPT
                          !.outcome = "json", !.status = 200,
                          !.aiResponse = GeminiAnswer(out),
                          !.results = results,
                          !.hasContext = hasContext]
    /\ pc' = "done"
    /\ UNCHANGED << route, allNamespaces, req, maxRetries, failN, attempt, providerCalls, waits,
                    embedding, minScore, modelReply, isRelevant, nsQueue, fetched,
                    allMatches, results, hasContext, prompt, failedAt >>
    /\ UNCHANGED otherVars

----------------------------------------------------------------------------

Next ==
    \/ ReceiveSearch
    \/ ReceiveMcq
    \/ ReceiveMedical
    \/ CallGenerateEmbedding
    \/ CallSemanticSearch
    \/ SearchValidate
    \/ McqValidate
    \/ MedicalValidate
    \/ Classify
    \/ EmbedExhausted
    \/ EmbedFailRetry
    \/ EmbedFailThrow
    \/ EmbedSuccess
    \/ Connect
    \/ Stats
    \/ ShardQuery
    \/ Query
    \/ Assess
    \/ SearchGenerate
    \/ McqGenerate
    \/ MedicalGenerate

Spec == Init /\ [][Next]_vars

----------------------------------------------------------------------------
(* The answer parser of the chat page and of the search page.  A phrase the *)
(* parser looks for as a whole is one element of a text.                    *)

\* '[SOURCE:' of the anchored pattern, without the space
SourceTagOpen == SubSeq(SourceOpen, 1, Len(SourceOpen) - 1)

\* 'Based on the Medical Text Reference:' (chat page)
MedicalMarker == "Based on the Medical Text Reference:"
\* 'Based on the Text Reference:' (search page)
TextMarker == "Based on the Text Reference:"
\* /While Davidson's textbook does not contain specific information about/
DavidsonPhrase == "While Davidson's textbook does not contain specific information about"

\* [^\]]+ from position from: the position after the run of non-] elements
RunEnd(text, from) ==
    CHOOSE k \in from..(Len(text) + 1) :
        /\ k = Len(text) + 1 \/ text[k] = "]"
        /\ \A j \in from..(k - 1) : text[j] # "]"

\* open [^\]]+ \] matches at position i
TagAt(text, i, open) ==
    /\ i + Len(open) - 1 <= Len(text)
    /\ SubSeq(text, i, i + Len(open) - 1) = open
    /\ RunEnd(text, i + Len(open)) > i + Len(open)
    /\ RunEnd(text, i + Len(open)) <= Len(text)

\* text.match(/\[SOURCE: ([^\]]+)\]/)?.[1] || '': the label of the leftmost
\* match, wherever it is in the text
MatchSource(text) ==
    LET hits == {i \in 1..Len(text) : TagAt(text, i, SourceOpen)}
    IN  IF hits = {} THEN << >>
        ELSE LET i == CHOOSE h \in hits : \A g \in hits : h <= g
                 from == i + Len(SourceOpen)
             IN  SubSeq(text, from, RunEnd(text, from) - 1)

\* text.replace(/^\[SOURCE:[^\]]+\]/, ''): only a tag at the very start
RemoveLeadingTag(text) ==
    IF TagAt(text, 1, SourceTagOpen)
    THEN SubSeq(text, RunEnd(text, Len(SourceTagOpen) + 1) + 1, Len(text))
    ELSE text

\* the position of the first occurrence of a phrase, 0 if there is none
IndexOf(text, phrase) ==
    IF \E i \in 1..Len(text) : text[i] = phrase
    THEN CHOOSE i \in 1..Len(text) :
            text[i] = phrase /\ \A j \in 1..(i - 1) : text[j] # phrase
    ELSE 0

\* text.replace(/phrase/, ''): the first occurrence goes
RemoveFirst(text, phrase) ==
    IF IndexOf(text, phrase) = 0 THEN text
    ELSE SubSeq(text, 1, IndexOf(text, phrase) - 1)
            \o SubSeq(text, IndexOf(text, phrase) + 1, Len(text))

\* const [aiPart, textbookPart] = text.split(marker): the first two parts
SplitFirst(text, marker) == SubSeq(text, 1, IndexOf(text, marker) - 1)
SplitSecond(text, marker) ==
    LET rest == SubSeq(text, IndexOf(text, marker) + 1, Len(text))
    IN  IF IndexOf(rest, marker) = 0 THEN rest
        ELSE SubSeq(rest, 1, IndexOf(rest, marker) - 1)

\* parseResponse(text), with the page's section marker
ParseResponse(marker, text) ==
    LET source == MatchSource(text)
        contentWithoutSource == Trim(RemoveLeadingTag(text))
    IN  IF IndexOf(contentWithoutSource, marker) # 0
        THEN [source |-> source,
              textbook |-> Trim(SplitSecond(contentWithoutSource, marker)),
              aiGenerated |-> Trim(SplitFirst(contentWithoutSource, marker))]
        ELSE [source |-> source,
              textbook |-> << >>,
              aiGenerated |-> Trim(RemoveFirst(contentWithoutSource, DavidsonPhrase))]

\* answer texts: what precedes the tag, the tag, what follows it
Leads == { << >>, << " " >>, << "o", "k", " " >> }
Tags ==
    { << >>,
      SourceOpen \o << "T", "]" >>,
      SourceTagOpen \o << "T", "]" >>,
      SourceOpen \o << "]" >>,
      SourceOpen \o << "T" >> }
Tails ==
    { << >>,
      << "\n" >> \o Body \o << " " >>,
      << " " >> \o Body \o << " ", MedicalMarker, " ", "t", "b" >>,
      Body \o << TextMarker, "t", TextMarker, "b" >>,
      << " ", DavidsonPhrase, " ", "x" >>,
      Body \o << " " >> \o SourceOpen \o << "U", "]", " ", "z" >> }
AnswerTexts == {l \o t \o b : l \in Leads, t \in Tags, b \in Tails}

\* <MedicalResponse content={...} /> on the chat page
RenderChat ==
    /\ page = "none"
    /\ \E text \in AnswerTexts :
        /\ content' = text
        /\ parsed' = ParseResponse(MedicalMarker, text)
    /\ page' = "chat"
    /\ UNCHANGED notPage

\* <MedicalResponse content={...} /> on the search page
RenderSearch ==
    /\ page = "none"
    /\ \E text \in AnswerTexts :
        /\ content' = text
        /\ parsed' = ParseResponse(TextMarker, text)
    /\ page' = "search"
    /\ UNCHANGED notPage

PageNext ==
    \/ RenderChat
    \/ RenderSearch

PageSpec == Init /\ [][PageNext]_vars

----------------------------------------------------------------------------
(* The upload route *)

LowerChars ==
    { "a", "b", "c", "d", "e", "f", "g", "h", "i", "j", "k", "l", "m",
      "n", "o", "p", "q", "r", "s", "t", "u", "v", "w", "x", "y", "z" }

\* [a-z0-9-]
IsIndexChar(c) == c \in LowerChars \/ IsDigit(c) \/ c = "-"

IndexNameValidLax(name) == name # << >>

\* /^[a-z0-9-]+$/.test(indexName)
IndexNameValid(name) ==
    name # << >> /\ \A i \in 1..Len(name) : IsIndexChar(name[i])

\* index names sent with an upload
IndexNames ==
    { << >>, << "-" >>, << "9" >>,
      << "p", "h", "y", "s", "i", "c", "s", "-", "1" >>,
      << "P", "h", "y", "s", "i", "c", "s" >>,
      << "a", " ", "b" >>, << "a", "b", "_", "1" >>, << "a", "b", "\n" >> }

\* the upload requests: formData.get('file'), formData.get('indexName')
Forms ==
    { [hasFile |-> f, fileName |-> IF f THEN "book.pdf" ELSE "",
       hasIndexName |-> TRUE, indexName |-> n] : f \in BOOLEAN, n \in IndexNames }
    \cup { [hasFile |-> f, fileName |-> IF f THEN "book.pdf" ELSE "",
            hasIndexName |-> FALSE, indexName |-> << >>] : f \in BOOLEAN }

\* the events of the progress stream
ProgressEvent(n, total) ==
    [type |-> "progress", from |-> "stdout", hasProgress |-> TRUE,
     chunksProcessed |-> n, totalChunks |-> total]
MessageEvent ==
    [type |-> "message", from |-> "stdout", hasProgress |-> FALSE,
     chunksProcessed |-> 0, totalChunks |-> 0]
StderrEvent ==
    [type |-> "error", from |-> "stderr", hasProgress |-> FALSE,
     chunksProcessed |-> 0, totalChunks |-> 0]
SpawnErrorEvent(n, total) ==
    [type |-> "error", from |-> "error", hasProgress |-> TRUE,
     chunksProcessed |-> n, totalChunks |-> total]
CloseEvent(code, n, total) ==
    [type |-> IF code # 0 THEN "error" ELSE "complete", from |-> "close",
     hasProgress |-> TRUE, chunksProcessed |-> n, totalChunks |-> total]

\* POST of the upload route: const formData = await request.formData()
ReceiveUpload ==
    /\ upc = "idle"
    /\ \E f \in Forms : form' = f
    /\ upc' = "validate"
    /\ UNCHANGED << disk, spawned, proc, delivered, frag, error, chunksProcessed,
                    totalChunks, stream, writerClosed, uresponse >>
    /\ UNCHANGED << hpc, lateWrites >>
    /\ UNCHANGED notUpload

\* if (!file || !indexName) ... 400; if (!regex.test(indexName)) ... 400
UploadValidate ==
    /\ upc = "validate"
    /\ IF ~form.hasFile \/ ~form.hasIndexName \/ form.indexName = << >>
       THEN /\ uresponse' = ErrorResponse(400, "File and index name are required")
            /\ upc' = "done"
       ELSE IF ~IndexNameValid(form.indexName)
       THEN /\ uresponse' = ErrorResponse(400, "Index name must contain only lowercase letters, numbers, and hyphens")
            /\ upc' = "done"
       ELSE /\ uresponse' = uresponse
            /\ upc' = "save"
    /\ UNCHANGED << form, disk, spawned, proc, delivered, frag, error, chunksProcessed,
                    totalChunks, stream, writerClosed >>
    /\ UNCHANGED << hpc, lateWrites >>
    /\ UNCHANGED notUpload

\* arrayBuffer, mkdir, writeFile, then spawn, the handlers and the streaming
\* response; an error of arrayBuffer or writeFile reaches the catch: 500
SaveAndSpawn ==
    /\ upc = "save"
    /\ \/ /\ disk' = Append(disk, form.fileName)
          /\ spawned' = spawned + 1
          /\ \E n \in 1..MaxChunks :
                proc' = [NoProcess EXCEPT !.state = "running", !.total = n]
          /\ uresponse' = [NoResponse EXCEPT !.outcome = "stream", !.status = 200]
          /\ upc' = "streaming"
       \/ /\ disk' = Append(disk, form.fileName)
          /\ spawned' = spawned + 1
          /\ proc' = [NoProcess EXCEPT !.state = "failed", !.code = SpawnErrno]
          /\ uresponse' = [NoResponse EXCEPT !.outcome = "stream", !.status = 200]
          /\ upc' = "streaming"
       \/ /\ uresponse' = ErrorResponse(500, "Error processing file")
          /\ upc' = "done"
          /\ UNCHANGED << disk, spawned, proc >>
    /\ UNCHANGED << form, delivered, frag, error, chunksProcessed, totalChunks,
                    stream, writerClosed >>
    /\ UNCHANGED << hpc, lateWrites >>
    /\ UNCHANGED notUpload

\* the ingestion process has dealt with one more chunk and prints
\* "Progress: k/N chunks"
ProcessChunk ==
    /\ proc.state = "running" /\ proc.reported < proc.total
    /\ proc' = [proc EXCEPT !.reported = @ + 1]
    /\ UNCHANGED << upc, form, disk, spawned, delivered, frag, error, chunksProcessed,
                    totalChunks, stream, writerClosed, uresponse >>
    /\ UNCHANGED << hpc, lateWrites >>
    /\ UNCHANGED notUpload

\* the process reports something that is not fatal (the mismatch of the
\* read-back verification is a warning) on its standard error and goes on
ProcessWarn ==
    /\ proc.state = "running" /\ proc.stderr + error < MaxWarnings
    /\ proc' = [proc EXCEPT !.stderr = @ + 1]
    /\ UNCHANGED << upc, form, disk, spawned, delivered, frag, error, chunksProcessed,
                    totalChunks, stream, writerClosed, uresponse >>
    /\ UNCHANGED << hpc, lateWrites >>
    /\ UNCHANGED notUpload

\* the next chunk fails: the process writes to stderr and exits with code 1
ProcessFail ==
    /\ proc.state = "running" /\ proc.reported < proc.total
    /\ proc' = [proc EXCEPT !.state = "exited", !.code = 1, !.stderr = @ + 1]
    /\ UNCHANGED << upc, form, disk, spawned, delivered, frag, error, chunksProcessed,
                    totalChunks, stream, writerClosed, uresponse >>
    /\ UNCHANGED << hpc, lateWrites >>
    /\ UNCHANGED notUpload

\* every chunk is dealt with: the process exits with code 0
ProcessFinish ==
    /\ proc.state = "running" /\ proc.reported = proc.total
    /\ proc' = [proc EXCEPT !.state = "exited"]
    /\ UNCHANGED << upc, form, disk, spawned, delivered, frag, error, chunksProcessed,
                    totalChunks, stream, writerClosed, uresponse >>
    /\ UNCHANGED << hpc, lateWrites >>
    /\ UNCHANGED notUpload

\* dataStr.match(/Progress: (\d+)\/(\d+) chunks/): the first whole progress
\* line of a data chunk that holds the rest of a cut line (if one is due),
\* then n lines, the last of them cut when cut is true; 0 if there is none
FirstProgress(first, n, cut) ==
    IF n >= 2 \/ (n = 1 /\ ~cut) THEN first ELSE 0

\* pythonProcess.stdout.on('data'): a chunk of the process's output arrives
StdoutData ==
    /\ upc = "streaming"
    /\ \E n \in 0..(proc.reported - delivered), cut \in BOOLEAN :
        /\ n >= 1 \/ frag
        /\ cut => n >= 1
        /\ LET k == FirstProgress(delivered + 1, n, cut)
           IN  /\ chunksProcessed' = IF k # 0 THEN k ELSE chunksProcessed
               /\ totalChunks' = IF k # 0 THEN proc.total ELSE totalChunks
               /\ stream' = stream
                    \o (IF k # 0 THEN << ProgressEvent(k, proc.total) >> ELSE << >>)
                    \o << MessageEvent >>
        /\ delivered' = delivered + n
        /\ frag' = cut
    /\ UNCHANGED << upc, form, disk, spawned, proc, error, writerClosed, uresponse >>
    /\ UNCHANGED << hpc, lateWrites >>
    /\ UNCHANGED notUpload

\* pythonProcess.stderr.on('data')
StderrData ==
    /\ upc = "streaming" /\ proc.stderr > 0
    /\ proc' = [proc EXCEPT !.stderr = @ - 1]
    /\ error' = error + 1
    /\ stream' = Append(stream, StderrEvent)
    /\ UNCHANGED << upc, form, disk, spawned, delivered, frag, chunksProcessed,
                    totalChunks, writerClosed, uresponse >>
    /\ UNCHANGED << hpc, lateWrites >>
    /\ UNCHANGED notUpload

\* await sendProgress(...): writer.write of a writer that was closed rejects,
\* and the callback that awaits it ends there
SendProgress(ev) ==
    IF writerClosed = 0
    THEN stream' = Append(stream, ev) /\ lateWrites' = lateWrites
    ELSE stream' = stream /\ lateWrites' = lateWrites + 1

\* where a callback is after its await sendProgress(...)
AfterSend == IF writerClosed = 0 THEN "sent" ELSE "threw"

\* await writer.close(): a second call rejects, the stream stays closed
WriterClose ==
    /\ writerClosed' = writerClosed + 1
    /\ upc' = "closed"

\* pythonProcess.on('error') up to its first await: the process did not start
SpawnError ==
    /\ proc.state = "failed" /\ hpc.error = "idle"
    /\ SendProgress(SpawnErrorEvent(chunksProcessed, totalChunks))
    /\ hpc' = [hpc EXCEPT !.error = AfterSend]
    /\ UNCHANGED << upc, form, disk, spawned, proc, delivered, frag, error,
                    chunksProcessed, totalChunks, writerClosed, uresponse >>
    /\ UNCHANGED notUpload

\* pythonProcess.on('error'), the rest: await writer.close()
SpawnErrorEnd ==
    /\ hpc.error = "sent"
    /\ WriterClose
    /\ hpc' = [hpc EXCEPT !.error = "done"]
    /\ UNCHANGED << form, disk, spawned, proc, delivered, frag, error, chunksProcessed,
                    totalChunks, stream, uresponse, lateWrites >>
    /\ UNCHANGED notUpload

\* 'close' is emitted once the process has ended and its output is read; a
\* process that did not start emits 'error' first and 'close' after it
CloseEmitted ==
    \/ proc.state = "exited" /\ delivered = proc.reported /\ ~frag /\ proc.stderr = 0
    \/ proc.state = "failed" /\ hpc.error # "idle"

\* pythonProcess.on('close') up to its first await
Close ==
    /\ hpc.close = "idle" /\ CloseEmitted
    /\ SendProgress(CloseEvent(proc.code, chunksProcessed, totalChunks))
    /\ hpc' = [hpc EXCEPT !.close = AfterSend]
    /\ UNCHANGED << upc, form, disk, spawned, proc, delivered, frag, error,
                    chunksProcessed, totalChunks, writerClosed, uresponse >>
    /\ UNCHANGED notUpload

\* pythonProcess.on('close'), the rest: await writer.close()
CloseEnd ==
    /\ hpc.close = "sent"
    /\ WriterClose
    /\ hpc' = [hpc EXCEPT !.close = "done"]
    /\ UNCHANGED << form, disk, spawned, proc, delivered, frag, error, chunksProcessed,
                    totalChunks, stream, uresponse, lateWrites >>
    /\ UNCHANGED notUpload

UploadNext ==
    \/ ReceiveUpload
    \/ UploadValidate
    \/ SaveAndSpawn
    \/ ProcessChunk
    \/ ProcessWarn
    \/ ProcessFail
    \/ ProcessFinish
    \/ StdoutData
    \/ StderrData
    \/ SpawnError
    \/ SpawnErrorEnd
    \/ Close
    \/ CloseEnd

UploadSpec == Init /\ [][UploadNext]_vars

----------------------------------------------------------------------------
(* The reader of the progress stream in the upload page.  The JSON text of *)
(* an event is three elements: the opening brace, the fields, the closing  *)
(* brace.                                                                  *)

\* 'data: '
DataPrefix == << "d", "a", "t", "a", ":", " " >>

EventTypes == { "progress", "message", "error", "complete" }

\* encoder.encode(`data: ${JSON.stringify(progress)}\n\n`)
Encode(type) == DataPrefix \o << "{", type, "}" >> \o << "\n", "\n" >>

\* text.split('\n')
RECURSIVE Split(_)
Split(text) ==
    IF \E i \in 1..Len(text) : text[i] = "\n"
    THEN << SubSeq(text, 1, IndexOf(text, "\n") - 1) >>
            \o Split(SubSeq(text, IndexOf(text, "\n") + 1, Len(text)))
    ELSE << text >>

\* JSON.parse(json) returns an object: false where it throws
JsonParses(json) == Len(json) = 3 /\ json[1] = "{" /\ json[3] = "}"

\* the body of for (const line of lines): the events the switch deals with
RECURSIVE HandleLines(_)
HandleLines(lines) ==
    IF lines = << >> THEN << >>
    ELSE LET line == Head(lines)
             json == SubSeq(line, Len(DataPrefix) + 1, Len(line))
         IN  (IF StartsWith(line, DataPrefix) /\ JsonParses(json)
              THEN << json[2] >> ELSE << >>)
             \o HandleLines(Tail(lines))

\* sendProgress of the route: one more event on the stream
ServerWrite ==
    /\ ~bodyClosed /\ Len(written) < MaxEvents
    /\ \E type \in EventTypes :
        /\ written' = Append(written, type)
        /\ body' = body \o Encode(type)
    /\ UNCHANGED << bodyClosed, reader, handled >>
    /\ UNCHANGED notReader

\* writer.close() of the route
ServerClose ==
    /\ ~bodyClosed
    /\ bodyClosed' = TRUE
    /\ UNCHANGED << written, body, reader, handled >>
    /\ UNCHANGED notReader

\* const { done, value } = await reader.read() with done false: value holds
\* the next n bytes of the body, then the loop over its lines
Read ==
    /\ reader = "reading"
    /\ \E n \in 1..Len(body) :
        /\ handled' = handled \o HandleLines(Split(SubSeq(body, 1, n)))
        /\ body' = SubSeq(body, n + 1, Len(body))
    /\ UNCHANGED << written, bodyClosed, reader >>
    /\ UNCHANGED notReader

\* reader.read() with done true: break
ReadDone ==
    /\ reader = "reading" /\ bodyClosed /\ body = << >>
    /\ reader' = "done"
    /\ UNCHANGED << written, body, bodyClosed, handled >>
    /\ UNCHANGED notReader

ReaderNext ==
    \/ ServerWrite
    \/ ServerClose
    \/ Read
    \/ ReadDone

ReaderSpec == Init /\ [][ReaderNext]_vars

----------------------------------------------------------------------------
(* Upload requests running at the same time: what they share is the        *)
(* uploads directory.                                                      *)

\* formData() and file.arrayBuffer() of request r
UploadArrive(r) ==
    /\ requests[r].at = "idle"
    /\ \E name \in FileNames, bytes \in Contents :
        requests' = [requests EXCEPT ![r] =
                        [@ EXCEPT !.at = "buffered", !.fileName = name, !.bytes = bytes]]
    /\ UNCHANGED uploads
    /\ UNCHANGED notDir

\* await writeFile(join(uploadDir, file.name), buffer), then spawn with that
\* path
WriteAndSpawn(r) ==
    /\ requests[r].at = "buffered"
    /\ uploads' = [uploads EXCEPT ![requests[r].fileName] = requests[r].bytes]
    /\ requests' = [requests EXCEPT ![r].at = "spawned"]
    /\ UNCHANGED notDir

\* the ingestion process of request r reads the file at the path it was given
ProcessRead(r) ==
    /\ requests[r].at = "spawned"
    /\ requests' = [requests EXCEPT ![r] =
                        [@ EXCEPT !.at = "read", !.read = uploads[requests[r].fileName]]]
    /\ UNCHANGED uploads
    /\ UNCHANGED notDir

ConcurrentNext ==
    \/ \E r \in Requests : UploadArrive(r)
    \/ \E r \in Requests : WriteAndSpawn(r)
    \/ \E r \in Requests : ProcessRead(r)

ConcurrentSpec == Init /\ [][ConcurrentNext]_vars

----------------------------------------------------------------------------
(* The quiz of the MCQ page.  'Question <n>:', 'Options:' and an option    *)
(* letter with its '.' or ')' are one element of a text each.              *)

QuestionHeader == "Question 1:"
OptionsHeader == "Options:"
OptionLetters == { "A)", "B)", "C)", "D)", "A.", "B.", "C.", "D." }

\* options.find(...) on an empty list, and undefined || options[0] of it
Undefined == << "undefined" >>

\* the position of the first element of text at or after position from that
\* is phrase, 0 if there is none
IndexFrom(text, phrase, from) ==
    IF \E i \in from..Len(text) : text[i] = phrase
    THEN CHOOSE i \in from..Len(text) :
            text[i] = phrase /\ \A j \in from..(i - 1) : text[j] # phrase
    ELSE 0

\* opt.replace(/^[A-D][.)]\s*/, '').trim()
StripLetter(opt) ==
    IF opt # << >> /\ opt[1] \in OptionLetters THEN Trim(Tail(opt)) ELSE Trim(opt)

\* optionsText.split('\n').map(...).filter(opt => opt.length > 0)
RECURSIVE MapStrip(_)
MapStrip(lines) ==
    IF lines = << >> THEN << >>
    ELSE << StripLetter(Head(lines)) >> \o MapStrip(Tail(lines))

Options(optionsText) ==
    SelectSeq(MapStrip(Split(Trim(optionsText))), LAMBDA opt : opt # << >>)

HasAsterisk(opt) == \E i \in 1..Len(opt) : opt[i] = "*"

\* opt.replace('*', '').trim(): the first asterisk goes
Unmark(opt) == Trim(RemoveFirst(opt, "*"))

\* options.find(opt => opt.includes('*'))?.replace('*', '').trim() || options[0]
CorrectAnswer(options) ==
    LET marked == SelectSeq(options, HasAsterisk)
    IN  IF marked # << >> /\ Unmark(marked[1]) # << >> THEN Unmark(marked[1])
        ELSE IF options # << >> THEN options[1]
        ELSE Undefined

RECURSIVE MapUnmark(_)
MapUnmark(options) ==
    IF options = << >> THEN << >>
    ELSE << Unmark(Head(options)) >> \o MapUnmark(Tail(options))

\* mcqs.push({question, options: options.map(...), correctAnswer})
Mcq(question, optionsText) ==
    [question |-> Trim(question),
     options |-> MapUnmark(Options(optionsText)),
     correctAnswer |-> CorrectAnswer(Options(optionsText))]

\* (.*?) of the pattern holds no line break
OneLine(text) == \A i \in 1..Len(text) : text[i] # "\n"

\* the while loop over mcqRegex.exec(text), searching from position from:
\* /Question (\d+):\s*(.*?)\s*Options:\s*([\s\S]*?)(?=Question \d+:|$)/g
RECURSIVE ParseFrom(_, _)
ParseFrom(text, from) ==
    LET q == IndexFrom(text, QuestionHeader, from)
        o == IF q = 0 THEN 0 ELSE IndexFrom(text, OptionsHeader, q + 1)
        n == IF o = 0 THEN 0 ELSE IndexFrom(text, QuestionHeader, o + 1)
        end == IF n = 0 THEN Len(text) ELSE n - 1
    IN  IF q = 0 \/ o = 0 THEN << >>
        ELSE IF OneLine(Trim(SubSeq(text, q + 1, o - 1)))
        THEN << Mcq(SubSeq(text, q + 1, o - 1), SubSeq(text, o + 1, end)) >>
                \o (IF n = 0 THEN << >> ELSE ParseFrom(text, n))
        ELSE ParseFrom(text, q + 1)

parseMCQs(text) == ParseFrom(text, 1)

\* the replies of the MCQ route the page parses
OptionA == << "A)", " ", "a" >>
OptionB == << "B)", " ", "b" >>
OptionC == << "C.", "c", " " >>
OptionD == << "D)", "d" >>
Block(question, optionLines) ==
    << QuestionHeader, " " >> \o question \o << "\n", OptionsHeader, "\n" >>
        \o optionLines \o << "\n", "\n" >>
QuizReplies ==
    { \* three questions, one marked option each
      Block(<< "p" >>, OptionA \o << "\n" >> \o OptionB \o << "*", "\n" >> \o OptionC)
        \o Block(<< "q" >>, OptionA \o << "*", "\n" >> \o OptionB)
        \o Block(<< "r" >>, OptionA \o << "\n" >> \o OptionB \o << "\n" >>
                              \o OptionC \o << "*" >>),
      \* no option is marked
      Block(<< "p" >>, OptionA \o << "\n" >> \o OptionB \o << "\n" >> \o OptionC
                        \o << "\n" >> \o OptionD)
        \o Block(<< "q" >>, OptionB \o << "\n" >> \o OptionA \o << "\n" >> \o OptionD),
      \* a question without options, then one with options
      Block(<< "p" >>, << >>)
        \o Block(<< "q" >>, OptionA \o << "*", "\n" >> \o OptionB),
      \* the marked option is set in bold: B) **b***
      Block(<< "p" >>, OptionA \o << "\n" >>
                        \o << "B)", " ", "*", "*", "b", "*", "*", "*" >>),
      \* the first option line is an asterisk alone
      Block(<< "p" >>, << "*", "\n" >> \o OptionA),
      \* the question text runs over two lines
      Block(<< "p", "\n", "q" >>, OptionA \o << "*" >>),
      \* no question at all
      << "p", "\n" >> }

NoAnswersExtra(n) == [i \in 1..(n + 1) |-> << >>]

\* new Array(mcqs.length).fill('')
NoAnswers(n) == [i \in 1..n |-> << >>]

\* handleSubmit of the quiz page up to the fetch; the form is shown while
\* there is no quiz and its button is disabled while loading
QuizSubmit ==
    /\ quizState.mcqs = << >> /\ ~loading
    /\ loading' = TRUE
    /\ did' = "submit"
    /\ UNCHANGED quizState
    /\ UNCHANGED notQuiz

\* the answer of the MCQ route arrives: parseMCQs(data.response) and
\* setQuizState, or the catch when the response is not ok
QuizGenerated ==
    /\ loading
    /\ \/ \E text \in QuizReplies :
            quizState' = [mcqs |-> parseMCQs(text), currentQuestion |-> 0,
                          selectedAnswers |-> NoAnswers(Len(parseMCQs(text))),
                          showResults |-> FALSE, score |-> 0]
       \/ UNCHANGED quizState
    /\ loading' = FALSE
    /\ did' = "generate"
    /\ UNCHANGED notQuiz

\* the question and its option buttons are on the screen
QuestionShown == quizState.mcqs # << >> /\ ~quizState.showResults

\* handleAnswerSelect(option), by a click on one of the option buttons
AnswerSelect ==
    /\ QuestionShown
    /\ \E k \in 1..Len(quizState.mcqs[quizState.currentQuestion + 1].options) :
        quizState' = [quizState EXCEPT
            !.selectedAnswers[quizState.currentQuestion + 1] =
                quizState.mcqs[quizState.currentQuestion + 1].options[k]]
    /\ did' = "select"
    /\ UNCHANGED loading
    /\ UNCHANGED notQuiz

NextNeverDisabled == FALSE

\* disabled={!quizState.selectedAnswers[quizState.currentQuestion]}
NextDisabled == quizState.selectedAnswers[quizState.currentQuestion + 1] = << >>

\* the reduce of handleNextQuestion
RECURSIVE Score(_, _)
Score(mcqs, answers) ==
    IF mcqs = << >> THEN 0
    ELSE (IF Head(answers) = Head(mcqs).correctAnswer THEN 1 ELSE 0)
            + Score(Tail(mcqs), Tail(answers))

\* handleNextQuestion, by a click on the button Next Question / Finish Quiz
NextQuestion ==
    /\ QuestionShown /\ ~NextDisabled
    /\ IF quizState.currentQuestion < Len(quizState.mcqs) - 1
       THEN /\ quizState' = [quizState EXCEPT !.currentQuestion = @ + 1]
            /\ did' = "next"
       ELSE /\ quizState' = [quizState EXCEPT
                    !.showResults = TRUE,
                    !.score = Score(quizState.mcqs, quizState.selectedAnswers)]
            /\ did' = "finish"
    /\ UNCHANGED loading
    /\ UNCHANGED notQuiz

\* handleRestart, by a click on Generate New Quiz of the results
Restart ==
    /\ quizState.mcqs # << >> /\ quizState.showResults
    /\ quizState' = NoQuiz
    /\ did' = "restart"
    /\ UNCHANGED loading
    /\ UNCHANGED notQuiz

QuizNext ==
    \/ QuizSubmit
    \/ QuizGenerated
    \/ AnswerSelect
    \/ NextQuestion
    \/ Restart

QuizSpec == Init /\ [][QuizNext]_vars

----------------------------------------------------------------------------
(* The chat page *)

\* what the user may have typed when the form is submitted
ChatInputs == { << >>, << " " >>, << "h", "i" >>, << "y", "o", " " >> }

FailureText == "Sorry, there was an error processing your request. Please try again."

\* what the search route answers: data.aiResponse of an ok response
AiResponses == { "answer", "other answer" }

Message(id, role, text) == [id |-> id, role |-> role, content |-> text]

InFlightNever == FALSE

\* isLoading as handleSubmit reads it
InFlight == isLoading

\* handleSubmit of MedicalSearch up to the fetch
ChatSubmit ==
    /\ Len(messages) < MaxMessages
    /\ \E input \in ChatInputs :
        IF Trim(input) = << >> \/ InFlight
        THEN /\ chatDid' = "ignored"
             /\ UNCHANGED << messages, isLoading, closure >>
        ELSE /\ messages' = Append(messages, Message(Len(messages) + 1, "user", input))
             /\ closure' = Len(messages)
             /\ isLoading' = TRUE
             /\ chatDid' = "sent"
    /\ before' = messages
    /\ UNCHANGED notChat

\* the response is ok: the assistant's message, then finally
ChatAnswer ==
    /\ isLoading
    /\ \E text \in AiResponses :
        messages' = Append(messages, Message(closure + 2, "assistant", text))
    /\ isLoading' = FALSE
    /\ UNCHANGED << closure, chatDid, before >>
    /\ UNCHANGED notChat

\* fetch rejects, the response is not ok or its JSON does not parse: the
\* catch's message, then finally
ChatFail ==
    /\ isLoading
    /\ messages' = Append(messages, Message(closure + 2, "assistant", FailureText))
    /\ isLoading' = FALSE
    /\ UNCHANGED << closure, chatDid, before >>
    /\ UNCHANGED notChat

ChatNext ==
    \/ ChatSubmit
    \/ ChatAnswer
    \/ ChatFail

ChatSpec == Init /\ [][ChatNext]_vars

----------------------------------------------------------------------------
(* Properties *)

EmbedReturned == embedding # << >>
EmbedThrew == failedAt = "embed" \/ "embed" \in swallowed

\* C1: against a provider that fails its first N calls and then succeeds,
\* generateEmbedding(text, maxRetries) returns iff N < maxRetries, and then
\* has made exactly N + 1 provider calls; otherwise it throws after exactly
\* maxRetries provider calls.
C1_RetryBound ==
    /\ EmbedReturned => (failN < maxRetries /\ providerCalls = failN + 1)
    /\ EmbedThrew => (~(failN < maxRetries) /\ providerCalls = maxRetries)
    /\ pc \notin {"idle", "validate", "classify", "embed"} /\ response.status # 400
           /\ failedAt # "validate"
         => (EmbedReturned \/ EmbedThrew)

C1_Witness ==
    /\ route = "embedCall" /\ pc = "done"
    /\ maxRetries = DefaultMaxRetries /\ failN = 2
    /\ EmbedReturned /\ providerCalls = 3

RECURSIVE MaxScore(_)
MaxScore(ms) ==
    IF Len(ms) = 1 THEN ms[1].score ELSE Max(ms[1].score, MaxScore(Tail(ms)))

\* the claim's notion of sufficient: non-empty, and the best score reaches t
Sufficient(ms, t) == ms # << >> /\ MaxScore(ms) >= t

QueryReturned ==
    /\ \E i \in 1..Len(log) : log[i].op = "query"
    /\ failedAt # "query" /\ "query" \notin swallowed

\* C2: the relevance gate finds the retrieved matches sufficient iff the best
\* score is at least the threshold (0.5 in the search route, minScore in
\* semanticSearch); an empty match list is never sufficient.
C2_Gate ==
    /\ route = "search" /\ QueryReturned
         => /\ ~MatchesInsufficient(allMatches) <=> Sufficient(fetched, GateThreshold)
            /\ isRelevant => (prompt = "grounded" <=> Sufficient(fetched, GateThreshold))
    /\ route \in {"medical", "semanticCall"} /\ QueryReturned
         => (results # << >> <=> Sufficient(fetched, minScore))
    /\ route = "medical" /\ QueryReturned
         => (hasContext <=> Sufficient(fetched, DefaultMinScore))

C2_Witness ==
    /\ route = "search" /\ isRelevant /\ pc = "done"
    /\ Len(fetched) = 1 /\ fetched[1].score = GateThreshold
    /\ prompt = "grounded"

AllBelowThreshold(ms) == \A i \in 1..Len(ms) : ms[i].score < GateThreshold

\* C3: in the search route the general-knowledge fallback prompt is selected
\* iff the in-domain check returned true and no match reaches 0.5 (no match at
\* all included); usedFallback says the same, and is false in every other case.
C3_Fallback ==
    route = "search" =>
        /\ prompt # "none"
             => (prompt = "fallback" <=> (isRelevant /\ AllBelowThreshold(fetched)))
        /\ response.status = 200
             => (response.usedFallback <=> (isRelevant /\ AllBelowThreshold(fetched)))
        /\ response.status # 200 => ~response.usedFallback

C3_Witness ==
    /\ route = "search" /\ pc = "done" /\ response.status = 200
    /\ response.usedFallback /\ prompt = "fallback"
    /\ fetched # << >>

\* C4 as claimed: the grounded prompt is built iff the matches are sufficient,
\* and a request with insufficient matches and a negative in-domain check gets
\* neither the grounded nor the fallback prompt.
C4_Original ==
    route = "search" /\ prompt # "none"
        => /\ prompt = "grounded" <=> Sufficient(fetched, GateThreshold)
           /\ ~isRelevant /\ ~Sufficient(fetched, GateThreshold)
                => prompt \notin {"grounded", "fallback"}

\* C4 (amended): the search route builds one of two prompts only; the grounded
\* prompt is built iff the matches are sufficient or the in-domain check
\* returned false, so a request with insufficient matches and a negative
\* in-domain check gets the grounded prompt and usedFallback = false.
C4_GroundedPrompt ==
    route = "search" /\ prompt # "none"
        => /\ prompt \in {"grounded", "fallback"}
           /\ prompt = "grounded"
                <=> (Sufficient(fetched, GateThreshold) \/ ~isRelevant)
           /\ ~isRelevant /\ ~Sufficient(fetched, GateThreshold)
                => (prompt = "grounded" /\ ~response.usedFallback)

C4_Witness ==
    /\ route = "search" /\ pc = "done" /\ response.status = 200
    /\ ~isRelevant /\ fetched = << >>
    /\ prompt = "grounded" /\ ~response.usedFallback

\* the reply is YES in any letter case, with white space around it at most
SaysYes(t) ==
    \E i \in 1..Len(t) :
        /\ i + 2 = Len(TrimEnd(t))
        /\ t[i] \in {"y", "Y"} /\ t[i + 1] \in {"e", "E"} /\ t[i + 2] \in {"s", "S"}
        /\ \A j \in 1..(i - 1) : IsSpace(t[j])

\* C5: isQueryRelevantToSubject returns true only for a reply that is YES once
\* trimmed and upper-cased; any other reply and any error give false, and in
\* both cases the request goes on to embedding, retrieval and generation: an
\* error response is never due to the in-domain check.
C5_InDomainAdvisory ==
    route = "search" /\ modelReply.asked
        => /\ isRelevant <=> (~modelReply.threw /\ SaysYes(modelReply.text))
           /\ pc # "classify"
           /\ pc # "embed" => \E i \in 1..Len(log) : log[i].op = "embed"
           /\ response.status = 500
                => failedAt \in {"embed", "connect", "query", "generate"}

C5_Witness ==
    /\ route = "search" /\ pc = "done"
    /\ modelReply.threw /\ ~isRelevant
    /\ response.status = 200 /\ genOutcome.called

RetrievalFailed ==
    \/ failedAt \in {"embed", "connect", "stats", "query"}
    \/ swallowed \cap {"embed", "connect", "query"} # {}

\* C6: a failure of the query embedding (retries exhausted) or of the index
\* connection or query ends the request, or the call, with an error; it is
\* never turned into an empty result list with which the pipeline goes on.
C6_ErrorsSurface ==
    route \in {"search", "mcq", "medical"} /\ pc = "done" /\ RetrievalFailed
        => /\ response.status = 500
           /\ ~genOutcome.called

GenerationFailedOrEmpty ==
    genOutcome.called /\ (genOutcome.threw \/ genOutcome.text = << >>)

\* C7: when the answer-generation call fails or returns empty text, the request
\* ends either in an error response or in an answer that begins with
\* [SOURCE: ERROR]; never in a success response with an empty or untagged answer.
C7_NoEmptyAnswer ==
    route \in {"search", "medical"} /\ pc = "done" /\ GenerationFailedOrEmpty
        => \/ response.status >= 400
           \/ response.status = 200 /\ StartsWith(response.aiResponse, SourceError)

Ranked(ms) == \A i \in 1..(Len(ms) - 1) : ms[i].score >= ms[i + 1].score

\* retrieval has produced its list: the prompt is built from it
Retrieved == prompt # "none" \/ (route = "semanticCall" /\ pc = "done")

\* C8: every match list produced by retrieval, the merged list of a sharded
\* subject as well as a single-namespace list, has non-increasing scores.
C8_Ranked ==
    /\ Retrieved => Ranked(allMatches)
    /\ Ranked(results)
    /\ Ranked(response.results)

C8_Witness ==
    /\ route = "mcq" /\ IsSharded(req.subject) /\ prompt = "mcq"
    /\ ~Ranked(fetched)
    /\ Len(allMatches) = Len(fetched)

QueryLog == SelectSeq(log, LAMBDA c : c.op = "query")

Prefixed(ns) == StartsWith(ns, ChapterPrefix)

\* every prefixed namespace of the index is queried exactly once, and nothing else
ShardsQueriedOnce ==
    /\ \A i \in 1..Len(allNamespaces) :
          Prefixed(allNamespaces[i])
            => Cardinality({j \in 1..Len(QueryLog) :
                              QueryLog[j].ns = allNamespaces[i]}) = 1
    /\ \A j \in 1..Len(QueryLog) :
          /\ Prefixed(QueryLog[j].ns)
          /\ \E i \in 1..Len(allNamespaces) : allNamespaces[i] = QueryLog[j].ns

\* topK of the claim: the count of an MCQ request, 5 in the search route
RequestedTopK == IF route = "mcq" THEN Count ELSE SearchTopK

\* C9 as claimed: a sharded subject has every prefixed namespace queried once
\* with limit topK * 2 and no other namespace; any other subject has the
\* default namespace queried once with limit topK.
C9_Original ==
    route \in {"search", "mcq"} /\ prompt # "none"
        => IF IsSharded(req.subject)
           THEN /\ ShardsQueriedOnce
                /\ \A j \in 1..Len(QueryLog) : QueryLog[j].topK = RequestedTopK * 2
           ELSE QueryLog = << QueryCall(DefaultNs, RequestedTopK) >>

\* C9 (amended): in the MCQ route a sharded subject (physics) has every
\* namespace whose name starts with chapter_ queried exactly once, each with
\* limit min(count * 2, 20), and no other namespace; any other subject has only
\* the default namespace queried, with limit min(count * 2, 20).  The search
\* route queries only the default namespace, with limit 5, for every subject.
C9_Namespaces ==
    /\ route = "mcq" /\ prompt # "none"
         => IF IsSharded(req.subject)
            THEN /\ ShardsQueriedOnce
                 /\ \A j \in 1..Len(QueryLog) :
                       QueryLog[j].topK = Min(Count * 2, 20)
            ELSE QueryLog = << QueryCall(DefaultNs, Min(Count * 2, 20)) >>
    /\ route = "search" /\ prompt # "none"
         => QueryLog = << QueryCall(DefaultNs, 5) >>

C9_Witness ==
    /\ route = "mcq" /\ IsSharded(req.subject) /\ prompt = "mcq"
    /\ Len(QueryLog) = 2 /\ Count = 15
    /\ \E i \in 1..Len(allNamespaces) : ~Prefixed(allNamespaces[i])

Kept(f) == \E i \in 1..Len(allMatches) : allMatches[i] = f

\* the merged list holds returned matches only, each once, and no returned
\* match that was dropped scores higher than one that was kept
TopOfFetched ==
    /\ \A i \in 1..Len(allMatches) : \E j \in 1..Len(fetched) : fetched[j] = allMatches[i]
    /\ \A i, j \in 1..Len(allMatches) : i # j => allMatches[i] # allMatches[j]
    /\ \A j \in 1..Len(fetched) :
          ~Kept(fetched[j])
            => \A i \in 1..Len(allMatches) : fetched[j].score <= allMatches[i].score

ShardedMerged == route = "mcq" /\ IsSharded(req.subject) /\ prompt = "mcq"

\* C10 as claimed: the result of a sharded retrieval is the topK * 2 best of
\* the returned matches, all of them when fewer were returned.
C10_Original ==
    ShardedMerged
        => /\ Len(allMatches) = Min(Len(fetched), Count * 2)
           /\ TopOfFetched

\* C10 (amended): the result of a sharded retrieval is the min(topK * 2, 20)
\* best of the returned matches, all of them when fewer were returned: no
\* returned match scoring higher than a kept one is dropped, and the list is
\* never longer than topK * 2, for every topK in 1..20.
C10_TopOfMerged ==
    ShardedMerged
        => /\ Count \in 1..20
           /\ Len(allMatches) = Min(Len(fetched), Min(Count * 2, 20))
           /\ Len(allMatches) <= Count * 2
           /\ TopOfFetched

C10_Witness ==
    /\ ShardedMerged
    /\ Count = 11 /\ Len(fetched) > 22
    /\ Len(allMatches) = 20

----------------------------------------------------------------------------
(* C11: ties keep the index's order *)

\* the place of a match in the order the index returned the matches in
\* (namespace query order, then position within the namespace's reply)
FetchIndex(m) == CHOOSE j \in 1..Len(fetched) : fetched[j] = m

\* C11: in the merged match list, two matches with equal score keep the
\* relative order in which the index returned them (namespace query order,
\* then position within the namespace's reply): the ranking sort is stable.
C11_StableRanking ==
    ShardedMerged
        => \A i, j \in 1..Len(allMatches) :
              (i < j /\ allMatches[i].score = allMatches[j].score)
                => FetchIndex(allMatches[i]) < FetchIndex(allMatches[j])

\* two namespaces' replies tie, and the merged list holds a tie across them
C11_Witness ==
    /\ ShardedMerged
    /\ \E i, j \in 1..Len(allMatches) :
          /\ i < j
          /\ allMatches[i].score = allMatches[j].score
          /\ allMatches[i].ns # allMatches[j].ns
          /\ allMatches[i].pos > allMatches[j].pos

----------------------------------------------------------------------------
(* C12: an empty retrieval is answered, not failed *)

\* the retrieval of a search or MCQ request came back with no match at all
ZeroMatches ==
    /\ route \in {"search", "mcq"}
    /\ prompt # "none"
    /\ fetched = << >>

\* C12: a retrieval that returns zero matches is not an error: the request
\* goes on to generation and, unless the generation call itself throws, ends
\* with a 200 response whose results list is empty and which carries the
\* generated answer; no error status comes from the empty result.
C12_ZeroMatchesSucceed ==
    ZeroMatches
        => /\ pc \in {"generate", "done"}
           /\ failedAt \in {"none", "generate"}
           /\ (pc = "generate") => failedAt = "none"
           /\ (pc = "done" /\ failedAt = "none")
                 => /\ response.status = 200
                    /\ response.error = NoResponse.error
                    /\ response.results = << >>
                    /\ genOutcome.called
                    /\ response.aiResponse = genOutcome.text
           /\ (pc = "done" /\ failedAt = "generate") => genOutcome.threw

\* a search answered 200 with no results and a non-empty generated answer
C12_Witness ==
    /\ ZeroMatches /\ route = "search" /\ pc = "done"
    /\ response.status = 200
    /\ response.results = << >>
    /\ response.aiResponse = Body

----------------------------------------------------------------------------
(* C14: requests without a query or a subject *)

\* a search or MCQ request whose query or subject is missing or empty, past
\* its receipt
Incomplete ==
    /\ route \in {"search", "mcq"}
    /\ ~req.query \/ req.subject = ""

\* C14: a search request whose query or subject is missing or empty is
\* answered with a 400 validation error by the validation step itself: no
\* in-domain classification, embedding, index or generation call is made for
\* it, nothing is waited for and nothing is retried.
C14_RejectedAtOnce ==
    Incomplete
        => /\ pc \in {"validate", "done"}
           /\ log = << >>
           /\ ~modelReply.asked /\ providerCalls = 0 /\ attempt = 0
           /\ waits = << >> /\ ~genOutcome.called
           /\ failedAt = "none"
           /\ pc = "done"
                => /\ response.status = 400
                   /\ response.error \in {"Query is required", "Subject is required"}

\* a search request with a query and no subject, answered 400
C14_Witness ==
    /\ route = "search" /\ pc = "done"
    /\ req.query /\ req.subject = ""
    /\ response.status = 400 /\ log = << >>

----------------------------------------------------------------------------
(* C17: the waits between embedding attempts *)

RECURSIVE SumSeq(_)
SumSeq(s) == IF s = << >> THEN 0 ELSE Head(s) + SumSeq(Tail(s))

\* generateEmbedding is over, by a return or by a throw
EmbedOver == EmbedReturned \/ EmbedThrew

\* C17: the wait after failed attempt k (k from 0) is 2^k seconds; every wait
\* lies between two attempts, so a finished call has waited once less than it
\* has called the provider and a call that throws has waited maxRetries - 1
\* times; with the default maxRetries = 3 the waits add up to 3 s at most.
C17_Backoff ==
    /\ \A i \in 1..Len(waits) : waits[i] = Pow(2, i - 1) * 1000
    /\ (pc = "embed") => (Len(waits) = providerCalls /\ Len(waits) = attempt)
    /\ (pc = "embed" /\ waits # << >>) => attempt < maxRetries
    /\ (EmbedOver /\ providerCalls > 0) => Len(waits) = providerCalls - 1
    /\ (EmbedThrew /\ maxRetries > 0) => Len(waits) = maxRetries - 1
    /\ (providerCalls = 0) => waits = << >>
    /\ (maxRetries = DefaultMaxRetries) => SumSeq(waits) <= 3000

\* three failed attempts with maxRetries = 4: waits of 1 s, 2 s and 4 s, and
\* none after the fourth failure
C17_Witness ==
    /\ route = "embedCall" /\ pc = "done"
    /\ maxRetries = 4 /\ EmbedThrew /\ providerCalls = 4
    /\ waits = << 1000, 2000, 4000 >>

----------------------------------------------------------------------------
(* C19: the index is not retried *)

\* the calls of one kind in the call log
CallsOf(op) == SelectSeq(log, LAMBDA c : c.op = op)

\* the connection, the namespace listing or a namespace query failed in a
\* search or MCQ request
IndexFailed ==
    /\ route \in {"search", "mcq"}
    /\ failedAt \in {"connect", "stats", "query"}

----------------------------------------------------------------------------
(* C15: the question count of an MCQ request *)

\* the count is a number: absent (the default applies), a JSON number, or a
\* string that is a decimal numeral
IsNumeral(t) == Trim(t) # << >> /\ \A i \in 1..Len(Trim(t)) : IsDigit(Trim(t)[i])
CountIsNumber(count) ==
    \/ count.kind \in {"absent", "num"}
    \/ count.kind = "str" /\ IsNumeral(count.s)

\* the number a count stands for
CountValue(count) ==
    CASE count.kind = "absent" -> 5
      [] count.kind = "num" -> count.n
      [] OTHER -> DigitsValue(Trim(count.s))

Clamped(k) == IF k < 1 THEN 1 ELSE IF k > 20 THEN 20 ELSE k

\* an MCQ request with a query and a subject, past its validation
McqValidated ==
    /\ route = "mcq" /\ req.query /\ req.subject # ""
    /\ pc # "validate"

\* C15: for every MCQ request that carries a query and a subject, a count
\* that is a number is used as an integer in 1..20 (absent means 5, below 1
\* becomes 1, above 20 becomes 20), and a count that is not a number is
\* rejected with a 400 validation error and no embedding, index or
\* generation call.
C15_CountValidated ==
    McqValidated
        => IF CountIsNumber(req.count)
           THEN /\ ~ValidCount(req.count).nan
                /\ Count \in 1..20
                /\ Count = Clamped(CountValue(req.count))
                /\ response.status # 400
           ELSE /\ pc = "done"
                /\ response.status = 400
                /\ log = << >>

----------------------------------------------------------------------------
(* C16: the shape of the returned embedding *)

\* the provider's vector as one flat sequence of numbers
FlatVector == [i \in 1..Len(Vector) |-> NumVal(Vector[i])]

\* C16: whatever shape the provider returns the embedding in (a plain array,
\* or a keyed object wrapping the values), a successful generateEmbedding
\* returns one flat sequence of numbers in the provider's dimension order: no
\* nesting, no permutation, same length as the provider's vector.
C16_FlatEmbedding ==
    EmbedReturned
        => /\ Len(embedding) = Len(Vector)
           /\ \A i \in 1..Len(embedding) : ~embedding[i].isArr
           /\ embedding = FlatVector

----------------------------------------------------------------------------
(* C18: the source tag of an answer *)

\* the text begins with a tag of the shape [SOURCE: <label>]
LeadingTag(text) == TagAt(text, 1, SourceOpen)

\* what is left of a text when white space and the section markers are
\* dropped
Solid(text) ==
    SelectSeq(text, LAMBDA c : ~IsSpace(c) /\ c \notin {MedicalMarker, TextMarker})

\* C18: the answer parser extracts a non-empty source label iff the answer
\* text begins with a tag of the shape [SOURCE: <label>]; for a text with no
\* leading tag the source is empty and the whole text is passed through as
\* the body, nothing removed but white space (and the marker that separates
\* the two sections of the body).
C18_SourceTag ==
    (page # "none")
        => /\ (parsed.source # << >>) <=> LeadingTag(content)
           /\ ~LeadingTag(content)
                => /\ parsed.source = << >>
                   /\ Solid(parsed.aiGenerated \o parsed.textbook) = Solid(content)

----------------------------------------------------------------------------
(* C13: uploads that fail validation *)

\* the upload lacks the file or the index name, or the index name has a
\* character outside a-z, 0-9 and the hyphen
BadUpload ==
    \/ ~form.hasFile
    \/ ~form.hasIndexName
    \/ Len(form.indexName) = 0
    \/ Len(SelectSeq(form.indexName, IsIndexChar)) < Len(form.indexName)

\* C13: an upload whose index name does not match ^[a-z0-9-]+$, or that
\* lacks the file or the index name, is rejected with a 400 validation error;
\* for such a request no file is written to disk and no ingestion process is
\* spawned.
C13_BadUploadRejected ==
    (upc # "idle" /\ BadUpload)
        => /\ upc \in {"validate", "done"}
           /\ disk = << >>
           /\ spawned = 0 /\ proc = NoProcess
           /\ stream = << >>
           /\ (upc = "done") => uresponse.status = 400

\* an upload with a file and the index name "Physics", answered 400
C13_Witness ==
    /\ upc = "done"
    /\ form.hasFile /\ form.hasIndexName
    /\ form.indexName = << "P", "h", "y", "s", "i", "c", "s" >>
    /\ uresponse.status = 400 /\ disk = << >>

----------------------------------------------------------------------------
(* C20: the failure report of an ingestion *)

\* the ingestion process failed part-way and the progress stream is complete
FailedPartWay == upc = "closed" /\ proc.code # 0

\* C20: when ingestion fails part-way, the last event of the progress stream
\* has type 'error' and carries chunksProcessed equal to the number of chunks
\* the process had reported as processed when it failed, however its output
\* was split into data chunks.
C20_LastSuccessfulChunk ==
    FailedPartWay
        => /\ stream # << >>
           /\ stream[Len(stream)].type = "error"
           /\ stream[Len(stream)].hasProgress
           /\ stream[Len(stream)].chunksProcessed = proc.reported

----------------------------------------------------------------------------
(* C23: the relevance assessment of the retrieved context *)

\* the model answered the assessment with the word RELEVANT
JudgedRelevant(reply) == ~reply.threw /\ ToUpperCase(Trim(reply.text)) = RELEVANT

\* the medical route has assessed its context
Assessed == route = "medical" /\ modelReply.asked /\ pc \in {"generate", "done"}

\* C23: assessContextRelevance returns true iff the model classified the
\* context as relevant (RELEVANT yields true, IRRELEVANT and any error yield
\* false), so that the reference-text prompt is built only for context judged
\* relevant and the general-knowledge prompt otherwise.
C23_RelevantIffJudged ==
    Assessed
        => /\ isRelevant <=> JudgedRelevant(modelReply)
           /\ (prompt = "reference") <=> JudgedRelevant(modelReply)
           /\ (prompt = "general") <=> ~JudgedRelevant(modelReply)

\* C21: in the progress stream of one run no 'complete' event follows an
\* 'error' event and no 'error' event follows a 'complete' event
Exclusive(a, b) ==
    \A i, j \in 1..Len(stream) :
        i < j => ~(stream[i].type = a /\ stream[j].type = b)

C21_OneTerminalState ==
    /\ Exclusive("error", "complete")
    /\ Exclusive("complete", "error")

\* C24: the progress stream is closed exactly once and nothing is written to
\* it after it was closed, whichever way the callbacks interleave
CallbacksDone ==
    /\ hpc.close \in {"done", "threw"}
    /\ proc.state = "failed" => hpc.error \in {"done", "threw"}

C24_ClosedOnce ==
    /\ writerClosed <= 1
    /\ lateWrites = 0
    /\ CallbacksDone => writerClosed = 1

\* C25: when the page has read the progress stream to its end it has dealt
\* with every event the server wrote, once each and in order
C25_EveryEventHandled == reader = "done" => handled = written

\* C22: the ingestion process of every upload request reads the bytes its own
\* request uploaded, also when two requests carry the same file name
C22_OwnBytesRead ==
    \A r \in Requests :
        requests[r].at = "read" => requests[r].read = requests[r].bytes

\* C26: a quiz that shows a question can be brought to its results by
\* selecting answers and taking next: every question from the current one on
\* has an answer or an option to select
Answerable(i) ==
    \/ quizState.selectedAnswers[i] # << >>
    \/ \E k \in 1..Len(quizState.mcqs[i].options) : quizState.mcqs[i].options[k] # << >>

C26_QuizCanBeFinished ==
    QuestionShown
        => \A i \in (quizState.currentQuestion + 1)..Len(quizState.mcqs) : Answerable(i)

\* C27: when the results are shown every question has an answer, score is
\* the number of answers equal to the correct answer, between 0 and the number
\* of questions, and the last step was next on the last question
RightAnswers ==
    { i \in 1..Len(quizState.mcqs) :
        quizState.selectedAnswers[i] = quizState.mcqs[i].correctAnswer }

C27_ResultsAreScored ==
    quizState.showResults
        => /\ \A i \in 1..Len(quizState.mcqs) : quizState.selectedAnswers[i] # << >>
           /\ quizState.score = Cardinality(RightAnswers)
           /\ 0 <= quizState.score /\ quizState.score <= Len(quizState.mcqs)
           /\ did = "finish" /\ quizState.currentQuestion = Len(quizState.mcqs) - 1

C27_Witness ==
    /\ quizState.showResults
    /\ Len(quizState.mcqs) = 3
    /\ quizState.score = 2

\* C28: while there are questions, currentQuestion is the index of one of
\* them and selectedAnswers has one slot per question; restart gives the quiz
\* state the page starts with
C28_QuizStateInRange ==
    /\ quizState.mcqs # << >>
        => /\ 0 <= quizState.currentQuestion
           /\ quizState.currentQuestion < Len(quizState.mcqs)
           /\ Len(quizState.selectedAnswers) = Len(quizState.mcqs)
    /\ did = "restart" => quizState = NoQuiz

C28_Witness ==
    /\ did = "select"
    /\ quizState.currentQuestion = 2
    /\ quizState.selectedAnswers[3] # << >>

\* C29: of a question with options the correct answer is one of the options
\* shown, and no option shown holds an asterisk
C29_CorrectAnswerShown ==
    \A i \in 1..Len(quizState.mcqs) :
        quizState.mcqs[i].options # << >>
            => /\ \E k \in 1..Len(quizState.mcqs[i].options) :
                    quizState.mcqs[i].options[k] = quizState.mcqs[i].correctAnswer
               /\ \A k \in 1..Len(quizState.mcqs[i].options) :
                    ~HasAsterisk(quizState.mcqs[i].options[k])

\* C30: the messages of the chat page alternate between user and assistant,
\* starting with the user; every user message has its one assistant message
\* once its request has settled; the id of a message is its position; a
\* submission while a request is in flight leaves the list as it was
C30_MessagesAlternate ==
    /\ \A i \in 1..Len(messages) :
        /\ messages[i].id = i
        /\ messages[i].role = (IF i % 2 = 1 THEN "user" ELSE "assistant")
    /\ Len(messages) % 2 = (IF isLoading THEN 1 ELSE 0)
    /\ (chatDid = "ignored" /\ isLoading) => messages = before

C30_Witness ==
    /\ Len(messages) = 5 /\ isLoading
    /\ messages[2].content = FailureText
    /\ messages[4].content # FailureText
    /\ chatDid = "ignored"

=============================================================================
